---- MODULE Spec2Model ----
(***************************************************************************)
(* A model of peakmon's LLM-integration subsystem: the AiMetrics           *)
(* orchestrator (src/src/metrics/ai.rs), its three kinds of background     *)
(* worker (pull, chat, search) with their mpsc channels, the collector's   *)
(* refresh (src/src/metrics/mod.rs) and the AI-related part of the host    *)
(* control loop (src/src/app.rs).                                          *)
(*                                                                         *)
(* Conventions                                                             *)
(*  - Option<T> is a sequence of length 0 (None) or 1 (Some(x)).           *)
(*  - Text is a sequence of one-character strings wherever the code looks  *)
(*    inside it (substring tests); messages whose text is only passed on   *)
(*    are TLA+ strings.                                                    *)
(*  - A channel is identified with the worker that holds its Sender: the   *)
(*    Receiver handle stored in AiMetrics is the index of that worker.     *)
(*    The Sender is alive until the worker's closure returns (pc "done").  *)
(*  - f64 values are modelled by integers (quotients are truncated).       *)
(***************************************************************************)
EXTENDS Integers, Sequences, FiniteSets, TLC

VARIABLES
    ai,              \* the AiMetrics struct (ai.rs:353-386)
    pull_workers,    \* the threads spawned by start_pull, in spawn order
    chat_workers,    \* the threads spawned by start_chat, in spawn order
    search_workers,  \* the threads spawned by start_search, in spawn order
    now,             \* the monotonic clock read by Instant::now(), in seconds
    app,             \* the AI-related fields of App (app.rs:19-37)
    last_op          \* the handler that ran last (observation only)

vars == <<ai, pull_workers, chat_workers, search_workers, now, app, last_op>>

----------------------------------------------------------------------------
(* Bounds of the model *)

\* worker threads (of all kinds together) that may be spawned in one run
MaxWorkers == 2
\* lines a pull response stream may carry before it ends
MaxPullLines == 1
\* lines a chat response stream may carry before it ends
MaxChatLines == 2
\* capacity of a History buffer in the model (DEFAULT_CAPACITY scaled down)
HistoryCap == 1

----------------------------------------------------------------------------
(* Option and text helpers *)

None == << >>
Some(x) == << x >>
IsSome(o) == Len(o) = 1
IsNone(o) == Len(o) = 0
Unwrap(o) == o[1]

Last(seq) == seq[Len(seq)]
Min(a, b) == IF a < b THEN a ELSE b

\* usize::saturating_sub
saturating_sub(a, b) == IF a > b THEN a - b ELSE 0

\* str::contains on character sequences
str_contains(hay, needle) ==
    \E i \in 0..(Len(hay) - Len(needle)) :
        \A j \in 1..Len(needle) : hay[i + j] = needle[j]

UpperChars == <<"A","B","C","D","E","F","G","H","I","J","K","L","M",
                "N","O","P","Q","R","S","T","U","V","W","X","Y","Z">>
LowerChars == <<"a","b","c","d","e","f","g","h","i","j","k","l","m",
                "n","o","p","q","r","s","t","u","v","w","x","y","z">>
LowerOf ==
    [c \in {UpperChars[i] : i \in 1..26} |->
        LowerChars[CHOOSE i \in 1..26 : UpperChars[i] = c]]

\* u8::to_ascii_lowercase
to_ascii_lowercase(c) == IF c \in DOMAIN LowerOf THEN LowerOf[c] ELSE c

\* util::contains_ignore_ascii_case: case-insensitive substring test
contains_ignore_ascii_case(hay, needle) ==
    str_contains([i \in 1..Len(hay) |-> to_ascii_lowercase(hay[i])],
                 [i \in 1..Len(needle) |-> to_ascii_lowercase(needle[i])])

----------------------------------------------------------------------------
(* History (metrics/history.rs) *)

\* History::new
History_new == [data |-> << >>, capacity |-> HistoryCap]

\* a History::push that never evicts
History_push_unbounded(h, value) == [h EXCEPT !.data = Append(@, value)]

\* History::push
History_push(h, value) ==
    LET d == IF Len(h.data) >= h.capacity THEN Tail(h.data) ELSE h.data
    IN  [h EXCEPT !.data = Append(d, value)]

----------------------------------------------------------------------------
(* Service detection tables (ai.rs:25-84) *)

SERVICE_PATTERNS == <<
    [name |-> "Ollama",
     process_patterns |-> << <<"o","l","l","a","m","a">> >>],
    [name |-> "LM Studio",
     process_patterns |-> << <<"L","M"," ","S","t","u","d","i","o">>,
                           <<"l","m","s","t","u","d","i","o">> >>],
    [name |-> "llama.cpp",
     process_patterns |-> << <<"l","l","a","m","a","-","s","e","r","v","e","r">>,
                           <<"l","l","a","m","a","-","c","l","i">> >>],
    [name |-> "Claude Code",
     process_patterns |-> << <<"c","l","a","u","d","e">> >>],
    [name |-> "MLX",
     process_patterns |-> << <<"m","l","x">> >>],
    [name |-> "vLLM",
     process_patterns |-> << <<"v","l","l","m">> >>],
    [name |-> "Open WebUI",
     process_patterns |-> << <<"o","p","e","n","-","w","e","b","u","i">> >>],
    [name |-> "GPT4All",
     process_patterns |-> << <<"g","p","t","4","a","l","l">> >>],
    [name |-> "Whisper",
     process_patterns |-> << <<"w","h","i","s","p","e","r">> >>],
    [name |-> "Stable Diffusion",
     process_patterns |-> << <<"s","t","a","b","l","e","-","d","i","f","f","u","s","i","o","n">>,
                           <<"c","o","m","f","y">> >>]
>>

AI_PROCESS_PATTERNS == <<
    <<"o","l","l","a","m","a">>,
    <<"l","m"," ","s","t","u","d","i","o">>,
    <<"l","m","s","t","u","d","i","o">>,
    <<"l","l","a","m","a","-","s","e","r","v","e","r">>,
    <<"l","l","a","m","a","-","c","l","i">>,
    <<"l","l","a","m","a">>,
    <<"c","l","a","u","d","e">>,
    <<"m","l","x">>,
    <<"v","l","l","m">>,
    <<"o","p","e","n","-","w","e","b","u","i">>,
    <<"g","p","t","4","a","l","l">>,
    <<"w","h","i","s","p","e","r">>,
    <<"s","t","a","b","l","e","-","d","i","f","f","u","s","i","o","n">>,
    <<"c","o","m","f","y">>
>>

\* the process names the inputs use
T_ollama == <<"o","l","l","a","m","a">>
T_zsh == <<"z","s","h">>
T_ollama_helper ==
    <<"O", "l", "l", "a", "m", "a", " ", "H", "e", "l", "p", "e", "r">>
T_ollamamanager ==
    <<"o", "l", "l", "a", "m", "a", "m", "a", "n", "a", "g", "e", "r", "-",
      "u", "n", "r", "e", "l", "a", "t", "e", "d">>
T_lm_studio ==
    <<"L", "M", " ", "S", "t", "u", "d", "i", "o">>
ProcessNames == {T_ollama, T_zsh, T_ollama_helper, T_ollamamanager, T_lm_studio}

\* the closure of ai.rs:456-460 and of ai.rs:483-487 for every process name
\* in use, evaluated once
ServiceMatch ==
    [name \in ProcessNames |->
        [i \in 1..Len(SERVICE_PATTERNS) |->
            \E k \in 1..Len(SERVICE_PATTERNS[i].process_patterns) :
                contains_ignore_ascii_case(name, SERVICE_PATTERNS[i].process_patterns[k])]]
AiProcessMatch ==
    [name \in ProcessNames |->
        \E k \in 1..Len(AI_PROCESS_PATTERNS) :
            contains_ignore_ascii_case(name, AI_PROCESS_PATTERNS[k])]

\* the texts the code compares against or emits as a status
T_success == <<"s","u","c","c","e","s","s">>
T_starting_pull == <<"S","t","a","r","t","i","n","g"," ","p","u","l","l",".",".",".">>

----------------------------------------------------------------------------
(* Message types (ai.rs:123-205) *)

\* PullStatus
PullProgress(status, percent) ==
    [tag |-> "Progress", status |-> status, percent |-> percent]
PullDone == [tag |-> "Done"]
PullError(msg) == [tag |-> "Error", msg |-> msg]
IsPullTerminal(m) == m.tag \in {"Done", "Error"}

\* ChatStatus
ChatIdle == [tag |-> "Idle"]
ChatGenerating == [tag |-> "Generating"]
ChatDone == [tag |-> "Done"]
ChatError(msg) == [tag |-> "Error", msg |-> msg]

\* ChatToken
TokToken(text) == [tag |-> "Token", text |-> text]
TokFirstToken(text, ttft) == [tag |-> "FirstToken", text |-> text, ttft |-> ttft]
TokDone(metrics) == [tag |-> "Done", metrics |-> metrics]
TokError(msg) == [tag |-> "Error", msg |-> msg]
IsChatTerminal(m) == m.tag \in {"Done", "Error"}

\* SearchStatus
SearchResults(results) == [tag |-> "Results", results |-> results]
SearchError(msg) == [tag |-> "Error", msg |-> msg]

\* the error texts of the workers
MSG_NO_PULL_RESPONSE == "No response from Ollama - is the model name valid?"
MSG_NO_CHAT_RESPONSE == "No response received"

----------------------------------------------------------------------------
(* AiMetrics: construction, detection, poller (ai.rs:388-534) *)

\* AiMetrics::new
AiMetrics_new ==
    [ services |-> << >>,
      ollama_available |-> FALSE,
      ollama_version |-> None,
      ollama_models |-> << >>,
      ollama_running |-> << >>,
      ai_processes |-> << >>,
      aggregate_cpu |-> 0,
      aggregate_memory |-> 0,
      cpu_history |-> History_new,
      model_selected |-> 0,
      pull_status |-> None,
      pull_model_name |-> None,
      pull_receiver |-> None,
      last_api_check |-> None,
      api_cache_secs |-> 5,
      chat_messages |-> << >>,
      chat_status |-> ChatIdle,
      chat_metrics |-> None,
      chat_model |-> None,
      tps_history |-> History_new,
      last_tps |-> << >>,
      chat_receiver |-> None,
      chat_scroll |-> 0,
      search_results |-> << >>,
      search_status |-> None,
      search_selected |-> 0,
      show_search |-> FALSE,
      search_receiver |-> None ]

\* a detect_services that reports the last matching process
detect_services_last_match(self, processes) ==
    LET entry(i) ==
            LET hits == {k \in 1..Len(processes) : ServiceMatch[processes[k].name][i]}
            IN  [ name |-> SERVICE_PATTERNS[i].name,
                  detected |-> hits # {},
                  version |-> IF SERVICE_PATTERNS[i].name = "Ollama"
                              THEN self.ollama_version ELSE None,
                  pid |-> IF hits = {} THEN None
                          ELSE Some(processes[CHOOSE k \in hits :
                                                 \A m \in hits : k >= m].pid) ]
        services == [i \in 1..Len(SERVICE_PATTERNS) |-> entry(i)]
    IN  [self EXCEPT
            !.services = services,
            !.ollama_available =
                \E i \in 1..Len(services) :
                    services[i].name = "Ollama" /\ services[i].detected]

\* AiMetrics::detect_services
detect_services(self, processes) ==
    LET entry(i) ==
            LET hits == {k \in 1..Len(processes) : ServiceMatch[processes[k].name][i]}
            IN  IF hits = {}
                THEN [ name |-> SERVICE_PATTERNS[i].name,
                       detected |-> FALSE,
                       version |-> IF SERVICE_PATTERNS[i].name = "Ollama"
                                   THEN self.ollama_version ELSE None,
                       pid |-> None ]
                ELSE [ name |-> SERVICE_PATTERNS[i].name,
                       detected |-> TRUE,
                       version |-> IF SERVICE_PATTERNS[i].name = "Ollama"
                                   THEN self.ollama_version ELSE None,
                       pid |-> Some(processes[CHOOSE k \in hits :
                                                 \A m \in hits : k <= m].pid) ]
        services == [i \in 1..Len(SERVICE_PATTERNS) |-> entry(i)]
    IN  [self EXCEPT
            !.services = services,
            !.ollama_available =
                \E i \in 1..Len(services) :
                    services[i].name = "Ollama" /\ services[i].detected]

\* insert p into a list sorted by descending cpu_usage
RECURSIVE insert_by_cpu(_, _)
insert_by_cpu(sorted, p) ==
    IF sorted = << >> THEN <<p>>
    ELSE IF p.cpu_usage > Head(sorted).cpu_usage THEN <<p>> \o sorted
         ELSE <<Head(sorted)>> \o insert_by_cpu(Tail(sorted), p)

\* sort by descending cpu_usage (ai.rs:491-495)
RECURSIVE sort_by_cpu(_)
sort_by_cpu(seq) ==
    IF seq = << >> THEN << >>
    ELSE insert_by_cpu(sort_by_cpu(Tail(seq)), Head(seq))

\* the sums of ai.rs:497-498
RECURSIVE sum_cpu_usage(_)
sum_cpu_usage(seq) ==
    IF seq = << >> THEN 0 ELSE Head(seq).cpu_usage + sum_cpu_usage(Tail(seq))

RECURSIVE sum_memory(_)
sum_memory(seq) ==
    IF seq = << >> THEN 0 ELSE Head(seq).memory + sum_memory(Tail(seq))

\* AiMetrics::filter_ai_processes
filter_ai_processes(self, processes) ==
    LET is_ai(p) == AiProcessMatch[p.name]
        list == sort_by_cpu(SelectSeq(processes, is_ai))
    IN  [self EXCEPT
            !.ai_processes = list,
            !.aggregate_cpu = sum_cpu_usage(list),
            !.aggregate_memory = sum_memory(list)]

\* a poller that gives up at the first call that fails
refresh_ollama_api_stops_at_failure(self, http) ==
    IF ~self.ollama_available
    THEN [self EXCEPT !.ollama_models = << >>, !.ollama_running = << >>,
                      !.ollama_version = None]
    ELSE IF IsNone(http.version) THEN self
    ELSE IF IsNone(http.tags)
    THEN [self EXCEPT !.ollama_version = Some(Unwrap(http.version))]
    ELSE [self EXCEPT !.ollama_version = Some(Unwrap(http.version)),
                      !.ollama_models = Unwrap(http.tags),
                      !.ollama_running = IF IsSome(http.ps) THEN Unwrap(http.ps) ELSE @]

\* a refresh_ollama_api that keeps the version when Ollama is not detected
refresh_ollama_api_keeps_version(self, http) ==
    IF ~self.ollama_available
    THEN [self EXCEPT !.ollama_models = << >>,
                      !.ollama_running = << >>]
    ELSE [self EXCEPT
            !.ollama_version = IF IsSome(http.version)
                               THEN Some(Unwrap(http.version)) ELSE @,
            !.ollama_models = IF IsSome(http.tags) THEN Unwrap(http.tags) ELSE @,
            !.ollama_running = IF IsSome(http.ps) THEN Unwrap(http.ps) ELSE @]

\* AiMetrics::refresh_ollama_api. http holds the outcome of the three GET calls:
\* each is None (the call or the decoding failed) or Some(the decoded value).
refresh_ollama_api(self, http) ==
    IF ~self.ollama_available
    THEN [self EXCEPT !.ollama_models = << >>,
                      !.ollama_running = << >>,
                      !.ollama_version = None]
    ELSE [self EXCEPT
            !.ollama_version = IF IsSome(http.version)
                               THEN Some(Unwrap(http.version)) ELSE @,
            !.ollama_models = IF IsSome(http.tags) THEN Unwrap(http.tags) ELSE @,
            !.ollama_running = IF IsSome(http.ps) THEN Unwrap(http.ps) ELSE @]

\* an update that polls on every call
should_check_api_always(self, t) == TRUE

\* the cache test of AiMetrics::update (ai.rs:431-434)
should_check_api(self, t) ==
    IF IsSome(self.last_api_check)
    THEN t - Unwrap(self.last_api_check) >= self.api_cache_secs
    ELSE TRUE

----------------------------------------------------------------------------
(* Channels and worker threads *)

\* A worker thread and its end of the channel. queue holds the messages
\* sent and not yet received; sent logs every message handed to tx.send and
\* drained counts the messages the orchestrator received (observation only).
NewWorker ==
    [pc |-> "connect", queue |-> << >>, sent |-> << >>, drained |-> 0,
     nread |-> 0, got_any_status |-> FALSE, first_token |-> TRUE]

\* `let _ = tx.send(msg)`: the message is queued while the Receiver exists;
\* with the Receiver dropped send returns Err, which the worker ignores.
tx_send(w, msg, rx_alive) ==
    [w EXCEPT !.sent = Append(@, msg),
              !.queue = IF rx_alive THEN Append(@, msg) ELSE @]

\* the closure returns: the Sender is dropped
worker_return(w) == [w EXCEPT !.pc = "done"]

\* the Sender of worker i is alive
sender_alive(workers, i) == workers[i].pc # "done"

\* Dropping a Receiver frees the messages still queued: only the worker
\* the handle rx names keeps its queue.
drop_receivers(workers, rx) ==
    [i \in 1..Len(workers) |->
        IF rx = Some(i) THEN workers[i] ELSE [workers[i] EXCEPT !.queue = << >>]]

\* the queue behind a Receiver handle (empty when there is no handle)
queue_of(workers, rx) == IF IsSome(rx) THEN workers[Unwrap(rx)].queue ELSE << >>

\* the worker's queue after the orchestrator received all but `rest`
after_recv(workers, rx, rest) ==
    IF IsSome(rx)
    THEN [workers EXCEPT ![Unwrap(rx)] =
            [@ EXCEPT !.queue = rest,
                      !.drained = @ + (Len(workers[Unwrap(rx)].queue) - Len(rest))]]
    ELSE workers

----------------------------------------------------------------------------
(* Pull worker: the closure of start_pull (ai.rs:547-624) *)

\* a percent computed whenever both counts are present, 0 for a total of 0
pull_percent_any_total(line) ==
    IF IsSome(line.total) /\ IsSome(line.completed)
    THEN Some(IF Unwrap(line.total) = 0 THEN 0
              ELSE (Unwrap(line.completed) * 100) \div Unwrap(line.total))
    ELSE None

\* percent of a PullProgressLine (ai.rs:581-586)
pull_percent(line) ==
    IF IsSome(line.total) /\ IsSome(line.completed) /\ Unwrap(line.total) > 0
    THEN Some((Unwrap(line.completed) * 100) \div Unwrap(line.total))
    ELSE None

\* the Err arm of the POST (ai.rs:604-622)
pull_connect_error(ev) ==
    IF ev.kind = "status"
    THEN IF IsSome(ev.body) /\ IsSome(Unwrap(ev.body).error)
         THEN "Pull failed (" \o ev.code \o "): " \o Unwrap(Unwrap(ev.body).error)
         ELSE "Pull failed: HTTP " \o ev.code
    ELSE "Pull failed: " \o ev.text

\* the POST returns (ai.rs:555-560, 604-622)
pull_worker_connect(w, ev, rx_alive) ==
    IF ev.kind = "ok"
    THEN [w EXCEPT !.pc = "read"]
    ELSE worker_return(tx_send(w, PullError(pull_connect_error(ev)), rx_alive))

\* a worker that takes only the status "success" itself as the end
pull_worker_line_exact_success(w, line, rx_alive) ==
    IF IsSome(line.error)
    THEN worker_return(tx_send(w, PullError(Unwrap(line.error)), rx_alive))
    ELSE LET percent == pull_percent(line)
             status == IF IsSome(line.status) THEN Unwrap(line.status) ELSE << >>
             w1 == [w EXCEPT !.got_any_status = TRUE]
         IN  IF status = T_success
             THEN worker_return(tx_send(w1, PullDone, rx_alive))
             ELSE tx_send(w1, PullProgress(status, percent), rx_alive)

\* a worker that looks at the status of a line before its error field
pull_worker_line_success_first(w, line, rx_alive) ==
    LET status == IF IsSome(line.status) THEN Unwrap(line.status) ELSE << >>
        w1 == [w EXCEPT !.got_any_status = TRUE]
    IN  IF str_contains(status, T_success)
        THEN worker_return(tx_send(w1, PullDone, rx_alive))
        ELSE IF IsSome(line.error)
        THEN worker_return(tx_send(w, PullError(Unwrap(line.error)), rx_alive))
        ELSE tx_send(w1, PullProgress(status, pull_percent(line)), rx_alive)

\* one parsed line of the stream (ai.rs:575-594)
pull_worker_line(w, line, rx_alive) ==
    IF IsSome(line.error)
    THEN worker_return(tx_send(w, PullError(Unwrap(line.error)), rx_alive))
    ELSE LET percent == pull_percent(line)
             status == IF IsSome(line.status) THEN Unwrap(line.status) ELSE << >>
             w1 == [w EXCEPT !.got_any_status = TRUE]
         IN  IF str_contains(status, T_success)
             THEN worker_return(tx_send(w1, PullDone, rx_alive))
             ELSE tx_send(w1, PullProgress(status, percent), rx_alive)

\* a worker that reports every end of stream as Done
pull_worker_eof_always_done(w, rx_alive) ==
    worker_return(tx_send(w, PullDone, rx_alive))

\* a worker that reports a stream without any status line by returning silently
pull_worker_eof_silent(w, rx_alive) ==
    IF w.got_any_status
    THEN worker_return(tx_send(w, PullDone, rx_alive))
    ELSE worker_return(w)

\* the stream ended (ai.rs:596-602)
pull_worker_eof(w, rx_alive) ==
    IF w.got_any_status
    THEN worker_return(tx_send(w, PullDone, rx_alive))
    ELSE worker_return(tx_send(w, PullError(MSG_NO_PULL_RESPONSE), rx_alive))

\* a worker that takes a line it cannot parse as the end of the stream
pull_worker_read_garbage_ends(w, ev, rx_alive) ==
    LET w1 == [w EXCEPT !.nread = @ + 1]
    IN  CASE ev.kind = "read_error" ->
                worker_return(tx_send(w, PullError("Read error: " \o ev.text), rx_alive))
          [] ev.kind = "eof" -> pull_worker_eof(w, rx_alive)
          [] ev.kind = "blank" -> w1
          [] ev.kind = "garbage" -> pull_worker_eof(w1, rx_alive)
          [] ev.kind = "json" -> pull_worker_line(w1, ev.line, rx_alive)

\* one turn of `for line in buf_reader.lines()` (ai.rs:564-595)
pull_worker_read(w, ev, rx_alive) ==
    LET w1 == [w EXCEPT !.nread = @ + 1]
    IN  CASE ev.kind = "read_error" ->
                worker_return(tx_send(w, PullError("Read error: " \o ev.text), rx_alive))
          [] ev.kind = "eof" -> pull_worker_eof(w, rx_alive)
          [] ev.kind = "blank" -> w1
          [] ev.kind = "garbage" -> w1
          [] ev.kind = "json" -> pull_worker_line(w1, ev.line, rx_alive)

\* one step of a pull worker
pull_worker_step(w, ev, rx_alive) ==
    IF w.pc = "connect" THEN pull_worker_connect(w, ev, rx_alive)
    ELSE pull_worker_read(w, ev, rx_alive)

----------------------------------------------------------------------------
(* AiMetrics: model management (ai.rs:538-724) *)

\* a start_pull that keeps tracking a pull already in flight
start_pull_keeps_first(self, model_name, rx) ==
    [self EXCEPT !.pull_receiver = IF IsSome(@) THEN @ ELSE Some(rx),
                 !.pull_model_name = Some(model_name),
                 !.pull_status = Some(PullProgress(T_starting_pull, None))]

\* AiMetrics::start_pull; rx is the Receiver of the channel it creates
start_pull(self, model_name, rx) ==
    [self EXCEPT !.pull_receiver = Some(rx),
                 !.pull_model_name = Some(model_name),
                 !.pull_status = Some(PullProgress(T_starting_pull, None))]

\* a delete_model that leaves the record of the last poll attempt alone
delete_model_keeps_record(self, model_name) ==
    LET keep(m) == m.name # model_name
        models == SelectSeq(self.ollama_models, keep)
    IN  [self EXCEPT
            !.ollama_models = models,
            !.model_selected =
                IF self.model_selected > 0 /\ self.model_selected >= Len(models)
                THEN saturating_sub(Len(models), 1) ELSE @]

\* a delete_model that removes the entry and leaves the cursor alone
delete_model_no_clamp(self, model_name) ==
    LET keep(m) == m.name # model_name
    IN  [self EXCEPT !.ollama_models = SelectSeq(self.ollama_models, keep),
                     !.last_api_check = None]

\* AiMetrics::delete_model (the DELETE request is fire-and-forget)
delete_model(self, model_name) ==
    LET keep(m) == m.name # model_name
        models == SelectSeq(self.ollama_models, keep)
    IN  [self EXCEPT
            !.ollama_models = models,
            !.model_selected =
                IF self.model_selected > 0 /\ self.model_selected >= Len(models)
                THEN saturating_sub(Len(models), 1) ELSE @,
            !.last_api_check = None]

\* AiMetrics::load_model and AiMetrics::unload_model take &self: they spawn a
\* fire-and-forget request and change nothing
load_model(self, model_name) == self
unload_model(self, model_name) == self

\* AiMetrics::select_next
select_next(self) ==
    LET count == Len(self.ollama_models)
    IN  IF count > 0
        THEN [self EXCEPT !.model_selected = Min(self.model_selected + 1, count - 1)]
        ELSE self

\* AiMetrics::select_prev
select_prev(self) ==
    [self EXCEPT !.model_selected = saturating_sub(self.model_selected, 1)]

\* AiMetrics::selected_model_name (model_selected is a 0-based index)
selected_model_name(self) ==
    IF self.model_selected < Len(self.ollama_models)
    THEN Some(self.ollama_models[self.model_selected + 1].name)
    ELSE None

\* AiMetrics::poll_pull_status on the queue q behind pull_receiver.
\* Returns the struct and what is left of the queue.
RECURSIVE recv_pull(_, _)
recv_pull(self, q) ==
    IF q = << >>
    THEN [self |-> self, q |-> q]
    ELSE LET status == Head(q)
         IN  IF IsPullTerminal(status)
             THEN [self |-> [self EXCEPT !.pull_status = Some(status),
                                         !.pull_receiver = None,
                                         !.last_api_check = None],
                   q |-> Tail(q)]
             ELSE recv_pull([self EXCEPT !.pull_status = Some(status)], Tail(q))

\* a poll_pull_status that takes the queued messages newest first
RECURSIVE Reverse(_)
Reverse(seq) == IF seq = << >> THEN << >> ELSE Append(Reverse(Tail(seq)), Head(seq))

poll_pull_status_newest_first(self, q) ==
    IF IsSome(self.pull_receiver) THEN recv_pull(self, Reverse(q))
    ELSE [self |-> self, q |-> q]

\* a poll_pull_status that takes Progress messages only
RECURSIVE recv_pull_progress(_, _)
recv_pull_progress(self, q) ==
    IF q = << >> \/ IsPullTerminal(Head(q))
    THEN [self |-> self, q |-> q]
    ELSE recv_pull_progress([self EXCEPT !.pull_status = Some(Head(q))], Tail(q))

poll_pull_status_progress_only(self, q) ==
    IF IsSome(self.pull_receiver) THEN recv_pull_progress(self, q)
    ELSE [self |-> self, q |-> q]

\* a poll_pull_status whose terminal message leaves last_api_check alone
poll_pull_status_keeps_api_check(self, q) ==
    IF IsSome(self.pull_receiver)
    THEN LET r == recv_pull(self, q)
         IN  [self |-> [r.self EXCEPT !.last_api_check = self.last_api_check],
              q |-> r.q]
    ELSE [self |-> self, q |-> q]

poll_pull_status(self, q) ==
    IF IsSome(self.pull_receiver) THEN recv_pull(self, q)
    ELSE [self |-> self, q |-> q]

\* AiMetrics::has_loaded_model
has_loaded_model(self) == self.ollama_running # << >>

\* AiMetrics::first_loaded_model_name
first_loaded_model_name(self) ==
    LET sel == selected_model_name(self)
    IN  IF IsSome(sel) /\ \E i \in 1..Len(self.ollama_running) :
                              self.ollama_running[i].name = Unwrap(sel)
        THEN sel
        ELSE IF self.ollama_running # << >>
             THEN Some(self.ollama_running[1].name) ELSE None

----------------------------------------------------------------------------
(* Chat worker: the closure of start_chat (ai.rs:745-835) *)

NS_PER_SEC == 1000000000
NS_PER_MS == 1000000

\* f64 division by zero gives infinity, or NaN for 0/0; both are kept apart
\* from every quotient, which is never negative here
F64_INFINITY == 0 - 1
F64_NAN == 0 - 2

RECURSIVE gcd(_, _)
gcd(a, b) == IF b = 0 THEN a ELSE gcd(b, a % b)

\* eval_count as f64 / eval_duration as f64 * 1e9 (ai.rs:789), truncated
chat_tps(eval_count, eval_duration) ==
    IF eval_duration = 0
    THEN IF eval_count = 0 THEN F64_NAN ELSE F64_INFINITY
    ELSE LET g == gcd(NS_PER_SEC, eval_duration)
         IN  (eval_count * (NS_PER_SEC \div g)) \div (eval_duration \div g)

unwrap_or(o, default) == IF IsSome(o) THEN Unwrap(o) ELSE default

\* the metrics of the final chunk (ai.rs:787-805); elapsed is
\* start_time.elapsed() in ms
chat_done_metrics(w, line, elapsed) ==
    LET eval_count == unwrap_or(line.eval_count, 0)
        eval_duration == unwrap_or(line.eval_duration, 1)
    IN  [ tokens_per_sec |-> chat_tps(eval_count, eval_duration),
          ttft_ms |-> IF w.first_token THEN elapsed ELSE 0,
          prompt_tokens |-> unwrap_or(line.prompt_eval_count, 0),
          gen_tokens |-> eval_count,
          total_duration_ms |-> unwrap_or(line.total_duration, 0) \div NS_PER_MS,
          load_duration_ms |-> unwrap_or(line.load_duration, 0) \div NS_PER_MS ]

\* the POST returns (ai.rs:760-764, 831-833)
chat_worker_connect(w, ev, rx_alive) ==
    IF ev.kind = "ok"
    THEN [w EXCEPT !.pc = "read"]
    ELSE worker_return(tx_send(w, TokError("Chat failed: " \o ev.text), rx_alive))

\* a worker that never clears first_token: every delta is a FirstToken
chat_worker_line_always_first(w, line, elapsed, rx_alive) ==
    IF unwrap_or(line.done, FALSE)
    THEN worker_return(tx_send(w, TokDone(chat_done_metrics(w, line, elapsed)), rx_alive))
    ELSE IF IsSome(line.message) /\ IsSome(Unwrap(line.message).content)
            /\ Unwrap(Unwrap(line.message).content) # << >>
         THEN tx_send(w, TokFirstToken(Unwrap(Unwrap(line.message).content), elapsed),
                      rx_alive)
         ELSE w

\* one parsed line of the stream (ai.rs:783-823)
chat_worker_line(w, line, elapsed, rx_alive) ==
    IF unwrap_or(line.done, FALSE)
    THEN worker_return(tx_send(w, TokDone(chat_done_metrics(w, line, elapsed)), rx_alive))
    ELSE IF IsSome(line.message) /\ IsSome(Unwrap(line.message).content)
            /\ Unwrap(Unwrap(line.message).content) # << >>
         THEN LET content == Unwrap(Unwrap(line.message).content)
              IN  IF w.first_token
                  THEN tx_send([w EXCEPT !.first_token = FALSE],
                               TokFirstToken(content, elapsed), rx_alive)
                  ELSE tx_send(w, TokToken(content), rx_alive)
         ELSE w

\* a worker that returns without a word when its stream ends
chat_worker_end_silent(w, rx_alive) == worker_return(w)

\* a worker that reports every stream ending without a done chunk as an Error
chat_worker_end_reports(w, rx_alive) ==
    worker_return(tx_send(w, TokError(MSG_NO_CHAT_RESPONSE), rx_alive))

\* after the loop: the stream ended without a done chunk (ai.rs:826-829)
chat_worker_end(w, rx_alive) ==
    IF w.first_token
    THEN worker_return(tx_send(w, TokError(MSG_NO_CHAT_RESPONSE), rx_alive))
    ELSE worker_return(w)

\* one turn of `for line in buf_reader.lines()` (ai.rs:769-824)
chat_worker_read(w, ev, rx_alive) ==
    LET w1 == [w EXCEPT !.nread = @ + 1]
    IN  CASE ev.kind = "read_error" -> chat_worker_end(w, rx_alive)
          [] ev.kind = "eof" -> chat_worker_end(w, rx_alive)
          [] ev.kind = "blank" -> w1
          [] ev.kind = "garbage" -> w1
          [] ev.kind = "json" -> chat_worker_line(w1, ev.line, ev.elapsed, rx_alive)

\* one step of a chat worker
chat_worker_step(w, ev, rx_alive) ==
    IF w.pc = "connect" THEN chat_worker_connect(w, ev, rx_alive)
    ELSE chat_worker_read(w, ev, rx_alive)

----------------------------------------------------------------------------
(* AiMetrics: chat (ai.rs:728-926) *)

\* a start_chat that keeps listening to a chat already in flight
start_chat_keeps_first(self, model, rx) ==
    [self EXCEPT !.chat_receiver = IF IsSome(@) THEN @ ELSE Some(rx),
                 !.chat_status = ChatGenerating,
                 !.chat_model = Some(model)]

\* AiMetrics::start_chat; rx is the Receiver of the channel it creates
start_chat(self, model, rx) ==
    [self EXCEPT !.chat_receiver = Some(rx),
                 !.chat_status = ChatGenerating,
                 !.chat_model = Some(model)]

\* a push_str into every assistant entry of the transcript
append_to_every_assistant(messages, text) ==
    [k \in 1..Len(messages) |->
        IF messages[k].role = "assistant"
        THEN [messages[k] EXCEPT !.content = @ \o text] ELSE messages[k]]

\* push_str on the last message when it is the assistant's (ai.rs:847-851)
append_to_assistant(messages, text) ==
    IF messages # << >> /\ messages[Len(messages)].role = "assistant"
    THEN [messages EXCEPT ![Len(messages)].content = @ \o text]
    ELSE messages

\* HashMap::insert
map_insert(map, key, value) ==
    [k \in (DOMAIN map) \cup {key} |-> IF k = key THEN value ELSE map[k]]

\* the Done arm of poll_chat (ai.rs:874-896)
chat_on_done(self, metrics) ==
    LET ttft == IF metrics.ttft_ms = 0
                THEN IF IsSome(self.chat_metrics)
                     THEN Unwrap(self.chat_metrics).ttft_ms ELSE 0
                ELSE metrics.ttft_ms
        final_metrics == [metrics EXCEPT !.ttft_ms = ttft]
    IN  [self EXCEPT
            !.last_tps = IF IsSome(self.chat_model)
                         THEN map_insert(@, Unwrap(self.chat_model),
                                         final_metrics.tokens_per_sec)
                         ELSE @,
            !.tps_history = History_push(@, final_metrics.tokens_per_sec),
            !.chat_metrics = Some(final_metrics),
            !.chat_status = ChatDone,
            !.chat_receiver = None]

\* the FirstToken arm of poll_chat (ai.rs:853-873)
chat_on_first_token(self, text, ttft) ==
    [self EXCEPT
        !.chat_messages = append_to_assistant(@, text),
        !.chat_metrics =
            IF IsSome(@) THEN Some([Unwrap(@) EXCEPT !.ttft_ms = ttft])
            ELSE Some([ tokens_per_sec |-> 0, ttft_ms |-> ttft, prompt_tokens |-> 0,
                        gen_tokens |-> 0, total_duration_ms |-> 0,
                        load_duration_ms |-> 0 ])]

\* the loop of AiMetrics::poll_chat on the queue q behind chat_receiver;
\* alive says whether the Sender still exists (Empty or Disconnected)
RECURSIVE recv_chat(_, _, _)
recv_chat(self, q, alive) ==
    IF q = << >>
    THEN IF alive
         THEN [self |-> self, q |-> q]
         ELSE [self |-> [self EXCEPT
                            !.chat_status = IF @ = ChatGenerating THEN ChatDone ELSE @,
                            !.chat_receiver = None],
               q |-> q]
    ELSE LET m == Head(q)
         IN  CASE m.tag = "Token" ->
                    recv_chat([self EXCEPT !.chat_messages =
                                    append_to_assistant(@, m.text)], Tail(q), alive)
               [] m.tag = "FirstToken" ->
                    recv_chat(chat_on_first_token(self, m.text, m.ttft), Tail(q), alive)
               [] m.tag = "Done" ->
                    [self |-> chat_on_done(self, m.metrics), q |-> Tail(q)]
               [] m.tag = "Error" ->
                    [self |-> [self EXCEPT !.chat_status = ChatError(m.msg),
                                           !.chat_receiver = None],
                     q |-> Tail(q)]

\* a poll_chat whose Error arm also drops the metrics of the turn
poll_chat_error_clears_metrics(self, q, alive) ==
    IF IsNone(self.chat_receiver) THEN [self |-> self, q |-> q]
    ELSE IF q # << >> /\ Head(q).tag = "Error"
    THEN [self |-> [self EXCEPT !.chat_status = ChatError(Head(q).msg),
                                !.chat_metrics = None,
                                !.chat_receiver = None],
          q |-> Tail(q)]
    ELSE recv_chat(self, q, alive)

\* a poll_chat that takes the newest queued message first
poll_chat_newest_first(self, q, alive) ==
    IF IsNone(self.chat_receiver) THEN [self |-> self, q |-> q]
    ELSE recv_chat(self, Reverse(q), alive)

\* a poll_chat that takes a closed channel for one that is still open
poll_chat_ignores_close(self, q, alive) ==
    IF IsNone(self.chat_receiver) THEN [self |-> self, q |-> q]
    ELSE recv_chat(self, q, TRUE)

\* AiMetrics::poll_chat
poll_chat(self, q, alive) ==
    IF IsNone(self.chat_receiver) THEN [self |-> self, q |-> q]
    ELSE recv_chat(self, q, alive)

\* a cancel_chat that resets the status whatever it was
cancel_chat_resets(self) ==
    [self EXCEPT !.chat_receiver = None,
                 !.chat_status = ChatIdle]

\* AiMetrics::cancel_chat
cancel_chat(self) ==
    [self EXCEPT !.chat_receiver = None,
                 !.chat_status = IF @ = ChatGenerating THEN ChatIdle ELSE @]

\* AiMetrics::clear_chat
clear_chat(self) ==
    [self EXCEPT !.chat_messages = << >>,
                 !.chat_metrics = None,
                 !.chat_status = ChatIdle,
                 !.chat_scroll = 0]

----------------------------------------------------------------------------
(* Search (ai.rs:930-1028) *)

\* the closure of start_search (ai.rs:938-971): one GET, one message.
\* ev.results is what parse_search_html returns for the page received.
search_worker_step(w, ev, rx_alive) ==
    CASE ev.kind = "ok" ->
            worker_return(tx_send(w, SearchResults(ev.results), rx_alive))
      [] ev.kind = "read_failed" ->
            worker_return(tx_send(w, SearchError("Failed to read response: " \o ev.text),
                                  rx_alive))
      [] ev.kind = "failed" ->
            worker_return(tx_send(w, SearchError("Search failed: " \o ev.text), rx_alive))

\* a start_search that keeps the handle of a search still tracked
start_search_keeps_handle(self, query, rx) ==
    [self EXCEPT !.search_receiver = IF IsSome(@) THEN @ ELSE Some(rx),
                 !.search_status = Some("Searching..."),
                 !.search_results = << >>,
                 !.search_selected = 0,
                 !.show_search = TRUE]

\* AiMetrics::start_search; rx is the Receiver of the channel it creates
start_search(self, query, rx) ==
    [self EXCEPT !.search_receiver = Some(rx),
                 !.search_status = Some("Searching..."),
                 !.search_results = << >>,
                 !.search_selected = 0,
                 !.show_search = TRUE]

\* a poll_search that keeps the handle after a SearchStatus::Error
poll_search_keeps_handle(self, q, alive) ==
    IF IsNone(self.search_receiver) THEN [self |-> self, q |-> q]
    ELSE IF q = << >>
    THEN IF alive THEN [self |-> self, q |-> q]
         ELSE [self |-> [self EXCEPT !.search_receiver = None], q |-> q]
    ELSE LET m == Head(q)
         IN  IF m.tag = "Results"
             THEN [self |-> [self EXCEPT
                                !.search_status = IF m.results = << >>
                                                  THEN Some("No results found")
                                                  ELSE None,
                                !.search_results = m.results,
                                !.search_receiver = None],
                   q |-> Tail(q)]
             ELSE [self |-> [self EXCEPT !.search_status = Some(m.msg)],
                   q |-> Tail(q)]

\* a poll_search that takes an empty queue for a closed one
poll_search_gives_up(self, q, alive) ==
    IF IsNone(self.search_receiver) THEN [self |-> self, q |-> q]
    ELSE IF q = << >>
    THEN [self |-> [self EXCEPT !.search_receiver = None], q |-> q]
    ELSE LET m == Head(q)
         IN  IF m.tag = "Results"
             THEN [self |-> [self EXCEPT
                                !.search_status = IF m.results = << >>
                                                  THEN Some("No results found")
                                                  ELSE None,
                                !.search_results = m.results,
                                !.search_receiver = None],
                   q |-> Tail(q)]
             ELSE [self |-> [self EXCEPT !.search_status = Some(m.msg),
                                         !.search_receiver = None],
                   q |-> Tail(q)]

\* a poll_search that shows nothing for an empty result list and drops the
\* shown results on an error
poll_search_plain(self, q, alive) ==
    IF IsNone(self.search_receiver) THEN [self |-> self, q |-> q]
    ELSE IF q = << >>
    THEN IF alive THEN [self |-> self, q |-> q]
         ELSE [self |-> [self EXCEPT !.search_receiver = None], q |-> q]
    ELSE LET m == Head(q)
         IN  IF m.tag = "Results"
             THEN [self |-> [self EXCEPT !.search_status = None,
                                         !.search_results = m.results,
                                         !.search_receiver = None],
                   q |-> Tail(q)]
             ELSE [self |-> [self EXCEPT !.search_status = Some(m.msg),
                                         !.search_results = << >>,
                                         !.search_receiver = None],
                   q |-> Tail(q)]

\* AiMetrics::poll_search: a single try_recv on the queue q behind
\* search_receiver
poll_search(self, q, alive) ==
    IF IsNone(self.search_receiver) THEN [self |-> self, q |-> q]
    ELSE IF q = << >>
    THEN IF alive THEN [self |-> self, q |-> q]
         ELSE [self |-> [self EXCEPT !.search_receiver = None], q |-> q]
    ELSE LET m == Head(q)
         IN  IF m.tag = "Results"
             THEN [self |-> [self EXCEPT
                                !.search_status = IF m.results = << >>
                                                  THEN Some("No results found")
                                                  ELSE None,
                                !.search_results = m.results,
                                !.search_receiver = None],
                   q |-> Tail(q)]
             ELSE [self |-> [self EXCEPT !.search_status = Some(m.msg),
                                         !.search_receiver = None],
                   q |-> Tail(q)]

\* a search_select_next that does not stop at the last result
search_select_next_unclamped(self) ==
    [self EXCEPT !.search_selected = @ + 1]

\* AiMetrics::search_select_next
search_select_next(self) ==
    LET count == Len(self.search_results)
    IN  IF count > 0
        THEN [self EXCEPT !.search_selected = Min(self.search_selected + 1, count - 1)]
        ELSE self

\* AiMetrics::search_select_prev
search_select_prev(self) ==
    [self EXCEPT !.search_selected = saturating_sub(self.search_selected, 1)]

\* a selected_search_model that never appends a size tag
selected_search_model_bare(self) ==
    IF self.search_selected < Len(self.search_results)
    THEN Some(self.search_results[self.search_selected + 1].name)
    ELSE None

\* AiMetrics::selected_search_model
selected_search_model(self) ==
    IF self.search_selected < Len(self.search_results)
    THEN LET r == self.search_results[self.search_selected + 1]
         IN  IF r.sizes # << >> THEN Some(r.name \o ":" \o r.sizes[1])
             ELSE Some(r.name)
    ELSE None

\* AiMetrics::dismiss_search
dismiss_search(self) ==
    [self EXCEPT !.show_search = FALSE,
                 !.search_results = << >>,
                 !.search_status = None,
                 !.search_selected = 0]

----------------------------------------------------------------------------
(* AiMetrics::update (ai.rs:424-442) *)

\* t is Instant::now(); pq, cq, sq are the queues behind the three Receiver
\* handles and calive, salive say whether the chat and search Senders exist.
\* Returns the struct and what is left of each queue.
update(self, processes, http, t, pq, cq, calive, sq, salive) ==
    LET s1 == detect_services(self, processes)
        s2 == filter_ai_processes(s1, processes)
        r3 == poll_pull_status(s2, pq)
        r4 == poll_chat(r3.self, cq, calive)
        r5 == poll_search(r4.self, sq, salive)
        s6 == IF should_check_api(r5.self, t)
              THEN [refresh_ollama_api(r5.self, http) EXCEPT !.last_api_check = Some(t)]
              ELSE r5.self
        s7 == [s6 EXCEPT !.cpu_history = History_push(@, s6.aggregate_cpu)]
    IN  [self |-> s7, pq |-> r3.q, cq |-> r4.q, sq |-> r5.q]

----------------------------------------------------------------------------
(* The callers of AiMetrics (metrics/mod.rs, app.rs) *)

\* the test of ChatInput Enter (app.rs:200-201)
chat_submit_starts(self, prompt) ==
    prompt # << >> /\ IsSome(first_loaded_model_name(self))

\* ChatInput Enter (app.rs:198-216): push the user's message and an empty
\* assistant placeholder, then start_chat
chat_submit(self, prompt, rx) ==
    IF chat_submit_starts(self, prompt)
    THEN start_chat(
            [self EXCEPT !.chat_messages = @ \o
                << [role |-> "user", content |-> prompt],
                   [role |-> "assistant", content |-> << >>] >>],
            Unwrap(first_loaded_model_name(self)), rx)
    ELSE self

\* Enter in the search overlay (app.rs:154-159): pull the selected result
search_pull_selected(self, rx) ==
    IF IsSome(selected_search_model(self))
    THEN dismiss_search(start_pull(self, Unwrap(selected_search_model(self)), rx))
    ELSE self

\* a refresh that polls the AI subsystem on every tab
needs_ai_on_every_tab(active_tab) == TRUE

\* needs_ai of MetricsCollector::refresh (mod.rs:85)
needs_ai(active_tab) == active_tab = "Ai"

\* MetricsCollector::refresh, as far as AiMetrics is concerned (mod.rs:72-119)
metrics_refresh(self, active_tab, processes, http, t, pq, cq, calive, sq, salive) ==
    IF needs_ai(active_tab)
    THEN update(self, processes, http, t, pq, cq, calive, sq, salive)
    ELSE [self |-> self, pq |-> pq, cq |-> cq, sq |-> sq]

----------------------------------------------------------------------------
(* Inputs: what the processes, the daemon and the user may supply *)

T_pulling == <<"p","u","l","l","i","n","g">>

\* ProcessInfo lists handed to update
ProcsNone == << [pid |-> 7, name |-> T_zsh, cpu_usage |-> 1, memory |-> 1] >>
ProcsOllama == << [pid |-> 7, name |-> T_zsh, cpu_usage |-> 1, memory |-> 1],
                  [pid |-> 42, name |-> T_ollama, cpu_usage |-> 2, memory |-> 3] >>
ProcessLists == {ProcsNone, ProcsOllama}

\* registry entries
InstalledModel(name) == [name |-> name, size |-> 1, details |-> None]
RunningModel(name) == [name |-> name, size_vram |-> 1]
ModelNames == {"phi3", "llama3"}

\* outcomes of the poller's three GET calls
HttpOk == [ version |-> Some("0.5.1"),
            tags |-> Some(<<InstalledModel("phi3"), InstalledModel("llama3")>>),
            ps |-> Some(<<RunningModel("phi3")>>) ]
HttpFail == [version |-> None, tags |-> None, ps |-> None]
HttpOutcomes == {HttpOk, HttpFail}

\* a PullProgressLine (ai.rs:133-139)
PullLine(status, total, completed, error) ==
    [status |-> status, total |-> total, completed |-> completed, error |-> error]
L_p10 == PullLine(Some(T_pulling), Some(100), Some(10), None)
L_p60 == PullLine(Some(T_pulling), Some(100), Some(60), None)
L_success == PullLine(Some(T_success), None, None, None)
L_error == PullLine(None, None, None, Some("model not found"))
L_error_success == PullLine(Some(T_success), None, None, Some("model not found"))
PullLines == {L_p10, L_success, L_error, L_error_success}

\* what the POST of a pull may return
PullConnectEvents ==
    { [kind |-> "ok"],
      [kind |-> "status", code |-> "404", body |-> Some(L_error)],
      [kind |-> "status", code |-> "500", body |-> None],
      [kind |-> "transport", text |-> "connection refused"] }

\* what reading the next line of a stream may return besides a parsed line
StreamEndEvents == { [kind |-> "eof"], [kind |-> "read_error", text |-> "timed out"] }
SkippedLineEvents == { [kind |-> "blank"], [kind |-> "garbage"] }

\* the events a pull worker may meet in its next step
PullEvents(w) ==
    IF w.pc = "connect" THEN PullConnectEvents
    ELSE IF w.nread < MaxPullLines
         THEN {[kind |-> "json", line |-> l] : l \in PullLines}
              \cup SkippedLineEvents \cup StreamEndEvents
         ELSE StreamEndEvents

\* a ChatResponseLine (ai.rs:176-190)
ChatLine(message, done, eval_count, eval_duration) ==
    [ message |-> message, done |-> done, eval_count |-> eval_count,
      eval_duration |-> eval_duration, prompt_eval_count |-> Some(3),
      total_duration |-> Some(5 * NS_PER_MS), load_duration |-> Some(NS_PER_MS) ]
CL_token(text) == ChatLine(Some([content |-> Some(text)]), None, None, None)
CL_empty == ChatLine(Some([content |-> Some(<< >>)]), Some(FALSE), None, None)
CL_done == ChatLine(Some([content |-> Some(<< >>)]), Some(TRUE), Some(2), Some(NS_PER_SEC))
CL_absent == ChatLine(Some([content |-> None]), Some(FALSE), None, None)
CL_nomessage == ChatLine(None, None, None, None)
T_hi == <<"H","i">>
ChatLines == {CL_token(T_hi), CL_empty, CL_absent, CL_nomessage, CL_done}

\* start_time.elapsed() in ms, as read by the chat worker
ElapsedMs == {120}

\* what the POST of a chat may return
ChatConnectEvents == { [kind |-> "ok"], [kind |-> "failed", text |-> "connection refused"] }

\* the events a chat worker may meet in its next step
ChatEvents(w) ==
    IF w.pc = "connect" THEN ChatConnectEvents
    ELSE IF w.nread < MaxChatLines
         THEN {[kind |-> "json", line |-> l, elapsed |-> e] : l \in ChatLines, e \in ElapsedMs}
              \cup SkippedLineEvents \cup StreamEndEvents
         ELSE StreamEndEvents

\* prompts the user may type (trimmed)
T_why == <<"w","h","y">>
Prompts == {T_why}

\* search results as parse_search_html may return them
SR_llama3 == [name |-> "llama3", description |-> "Meta Llama 3",
              sizes |-> <<"8b", "70b">>, pulls |-> "110.4M"]
SR_phi3 == [name |-> "phi3", description |-> "", sizes |-> << >>, pulls |-> ""]
SearchEvents ==
    { [kind |-> "ok", results |-> <<SR_llama3, SR_phi3>>],
      [kind |-> "ok", results |-> << >>],
      [kind |-> "read_failed", text |-> "timed out"],
      [kind |-> "failed", text |-> "dns error"] }
Queries == {"llama"}

\* the tabs of the model: the AI tab and two of the nine others
Tabs == {"Dashboard", "Ai", "Logs"}

----------------------------------------------------------------------------
(* The state after construction (App::new, AiMetrics::new). The first     *)
(* refresh of App::run is for Tab::Dashboard and does not reach AiMetrics. *)

Init ==
    /\ ai = AiMetrics_new
    /\ pull_workers = << >>
    /\ chat_workers = << >>
    /\ search_workers = << >>
    /\ now = 0
    /\ app = [current_tab |-> "Dashboard", ai_input_mode |-> "Normal",
              ai_confirm_delete |-> None]
    /\ last_op = "new"

\* A control-loop handler ends: the struct is stored, and every channel
\* whose Receiver the struct no longer holds loses its queued messages.
Commit(self, pw, cw, sw, op) ==
    /\ ai' = self
    /\ pull_workers' = drop_receivers(pw, self.pull_receiver)
    /\ chat_workers' = drop_receivers(cw, self.chat_receiver)
    /\ search_workers' = drop_receivers(sw, self.search_receiver)
    /\ last_op' = op

\* the result of AiMetrics::update in the current state
UpdateResult(processes, http) ==
    update(ai, processes, http, now,
           queue_of(pull_workers, ai.pull_receiver),
           queue_of(chat_workers, ai.chat_receiver),
           IsSome(ai.chat_receiver) /\ sender_alive(chat_workers, Unwrap(ai.chat_receiver)),
           queue_of(search_workers, ai.search_receiver),
           IsSome(ai.search_receiver)
               /\ sender_alive(search_workers, Unwrap(ai.search_receiver)))

\* AiMetrics::update is called
Update(processes, http) ==
    LET r == UpdateResult(processes, http)
    IN  /\ Commit(r.self,
                  after_recv(pull_workers, ai.pull_receiver, r.pq),
                  after_recv(chat_workers, ai.chat_receiver, r.cq),
                  after_recv(search_workers, ai.search_receiver, r.sq),
                  "update")
        /\ UNCHANGED <<now, app>>

\* the worker threads spawned so far
TotalWorkers == Len(pull_workers) + Len(chat_workers) + Len(search_workers)

\* the name last_op gives to start_pull(name)
StartPullOp(name) == "start_pull " \o name
IsStartPullOp(op) == \E name \in ModelNames : op = StartPullOp(name)

\* AiMetrics::start_pull is called (PullPrompt Enter, app.rs:172-176)
StartPull(name) ==
    /\ TotalWorkers < MaxWorkers
    /\ Commit(start_pull(ai, name, Len(pull_workers) + 1),
              Append(pull_workers, NewWorker), chat_workers, search_workers,
              StartPullOp(name))
    /\ UNCHANGED <<now, app>>

\* a pull worker thread takes its next step
PullWorkerStep(i) ==
    /\ pull_workers[i].pc # "done"
    /\ \E ev \in PullEvents(pull_workers[i]) :
          pull_workers' = [pull_workers EXCEPT
              ![i] = pull_worker_step(@, ev, ai.pull_receiver = Some(i))]
    /\ last_op' = "pull_worker"
    /\ UNCHANGED <<ai, chat_workers, search_workers, now, app>>

\* a chat is submitted (ChatInput Enter, app.rs:198-216)
SendChat(prompt) ==
    /\ TotalWorkers < MaxWorkers
    /\ chat_submit_starts(ai, prompt)
    /\ Commit(chat_submit(ai, prompt, Len(chat_workers) + 1),
              pull_workers, Append(chat_workers, NewWorker), search_workers,
              "start_chat")
    /\ UNCHANGED <<now, app>>

\* a chat worker that writes its text into the transcript itself
ChatWorkerStepWritesTranscript(i) ==
    /\ chat_workers[i].pc # "done"
    /\ \E ev \in ChatEvents(chat_workers[i]) :
          LET w == chat_worker_step(chat_workers[i], ev, ai.chat_receiver = Some(i))
          IN  /\ chat_workers' = [chat_workers EXCEPT ![i] = w]
              /\ ai' = IF Len(w.sent) > Len(chat_workers[i].sent)
                           /\ Last(w.sent).tag \in {"FirstToken", "Token"}
                       THEN [ai EXCEPT !.chat_messages =
                                append_to_assistant(@, Last(w.sent).text)]
                       ELSE ai
    /\ last_op' = "chat_worker"
    /\ UNCHANGED <<pull_workers, search_workers, now, app>>

\* a chat worker thread takes its next step
ChatWorkerStep(i) ==
    /\ chat_workers[i].pc # "done"
    /\ \E ev \in ChatEvents(chat_workers[i]) :
          chat_workers' = [chat_workers EXCEPT
              ![i] = chat_worker_step(@, ev, ai.chat_receiver = Some(i))]
    /\ last_op' = "chat_worker"
    /\ UNCHANGED <<ai, pull_workers, search_workers, now, app>>

\* AiMetrics::start_search is called (SearchInput Enter, app.rs:238-242)
StartSearch(query) ==
    /\ TotalWorkers < MaxWorkers
    /\ Commit(start_search(ai, query, Len(search_workers) + 1),
              pull_workers, chat_workers, Append(search_workers, NewWorker),
              "start_search")
    /\ UNCHANGED <<now, app>>

\* a search worker thread runs
SearchWorkerStep(i) ==
    /\ search_workers[i].pc # "done"
    /\ \E ev \in SearchEvents :
          search_workers' = [search_workers EXCEPT
              ![i] = search_worker_step(@, ev, ai.search_receiver = Some(i))]
    /\ last_op' = "search_worker"
    /\ UNCHANGED <<ai, pull_workers, chat_workers, now, app>>

\* a method of AiMetrics that spawns no tracked worker is called
Call(self, op) ==
    /\ Commit(self, pull_workers, chat_workers, search_workers, op)
    /\ UNCHANGED <<now, app>>

\* Esc on the AI tab (app.rs:479-481)
CancelChat == Call(cancel_chat(ai), "cancel_chat")
\* 'C' on the AI tab (app.rs:475-478)
ClearChat == Call(clear_chat(ai), "clear_chat")
\* 'y' in the delete confirmation (app.rs:123-128)
DeleteModel(name) == Call(delete_model(ai, name), "delete_model")
\* Enter on the AI tab (app.rs:453-457)
LoadModel ==
    /\ IsSome(selected_model_name(ai))
    /\ Call(load_model(ai, Unwrap(selected_model_name(ai))), "load_model")
\* 'U' on the AI tab (app.rs:458-462)
UnloadModel ==
    /\ IsSome(selected_model_name(ai))
    /\ Call(unload_model(ai, Unwrap(selected_model_name(ai))), "unload_model")
\* j / k on the AI tab (app.rs:345, 360)
SelectNext == Call(select_next(ai), "select_next")
SelectPrev == Call(select_prev(ai), "select_prev")
\* the keys of the search overlay (app.rs:143-163)
DismissSearch == Call(dismiss_search(ai), "dismiss_search")
SearchSelectNext == Call(search_select_next(ai), "search_select_next")
SearchSelectPrev == Call(search_select_prev(ai), "search_select_prev")

----------------------------------------------------------------------------
(* The host control loop (app.rs:66-102) and its keys (app.rs:104-501) *)

\* no overlay or input mode captures the keys (app.rs:106-287)
KeysFree ==
    /\ IsNone(app.ai_confirm_delete)
    /\ ~ai.show_search
    /\ app.ai_input_mode = "Normal"

\* the periodic refresh of App::run (app.rs:94-98)
Tick(processes, http) ==
    LET r == metrics_refresh(ai, app.current_tab, processes, http, now,
                 queue_of(pull_workers, ai.pull_receiver),
                 queue_of(chat_workers, ai.chat_receiver),
                 IsSome(ai.chat_receiver)
                     /\ sender_alive(chat_workers, Unwrap(ai.chat_receiver)),
                 queue_of(search_workers, ai.search_receiver),
                 IsSome(ai.search_receiver)
                     /\ sender_alive(search_workers, Unwrap(ai.search_receiver)))
    IN  /\ Commit(r.self,
                  after_recv(pull_workers, ai.pull_receiver, r.pq),
                  after_recv(chat_workers, ai.chat_receiver, r.cq),
                  after_recv(search_workers, ai.search_receiver, r.sq),
                  "refresh")
        /\ UNCHANGED <<now, app>>

\* a key handled by App alone
AppKey(new_app, op) ==
    /\ app' = new_app
    /\ last_op' = op
    /\ UNCHANGED <<ai, pull_workers, chat_workers, search_workers, now>>

\* App::switch_tab by a number key, Tab or a function key (app.rs:306-328)
KeySwitchTab(tab) ==
    /\ KeysFree
    /\ tab # app.current_tab
    /\ AppKey([app EXCEPT !.current_tab = tab], "switch_tab")

\* 'P' on the AI tab (app.rs:442-447)
KeyOpenPullPrompt ==
    /\ KeysFree
    /\ app.current_tab = "Ai"
    /\ ai.ollama_available
    /\ AppKey([app EXCEPT !.ai_input_mode = "PullPrompt"], "open_pull_prompt")

\* Enter in the pull prompt with a non-empty name (app.rs:172-178)
KeyPullPromptEnter(name) ==
    /\ IsNone(app.ai_confirm_delete) /\ ~ai.show_search
    /\ app.ai_input_mode = "PullPrompt"
    /\ TotalWorkers < MaxWorkers
    /\ Commit(start_pull(ai, name, Len(pull_workers) + 1),
              Append(pull_workers, NewWorker), chat_workers, search_workers,
              StartPullOp(name))
    /\ app' = [app EXCEPT !.ai_input_mode = "Normal"]
    /\ UNCHANGED now

\* Esc in the pull prompt (app.rs:168-171)
KeyPullPromptEsc ==
    /\ IsNone(app.ai_confirm_delete) /\ ~ai.show_search
    /\ app.ai_input_mode = "PullPrompt"
    /\ AppKey([app EXCEPT !.ai_input_mode = "Normal"], "close_pull_prompt")

----------------------------------------------------------------------------
(* The end-to-end pull of "phi3": three progress lines *)

PhiScript ==
    << [kind |-> "json", line |-> L_p10],
       [kind |-> "json", line |-> L_p60],
       [kind |-> "json", line |-> L_success] >>

\* the pull worker reads the scripted stream
ScriptedPullWorkerStep(i) ==
    /\ pull_workers[i].pc # "done"
    /\ LET w == pull_workers[i]
           ev == IF w.pc = "connect" THEN [kind |-> "ok"]
                 ELSE IF w.nread < Len(PhiScript) THEN PhiScript[w.nread + 1]
                 ELSE [kind |-> "eof"]
       IN  pull_workers' = [pull_workers EXCEPT
              ![i] = pull_worker_step(@, ev, ai.pull_receiver = Some(i))]
    /\ last_op' = "pull_worker"
    /\ UNCHANGED <<ai, chat_workers, search_workers, now, app>>

----------------------------------------------------------------------------
(* Specifications *)

UpdateAny == Update(ProcsOllama, HttpOk)
StartPullAny == \E name \in ModelNames : StartPull(name)
PullWorkerAny == \E i \in 1..Len(pull_workers) : PullWorkerStep(i)
SendChatAny == \E prompt \in Prompts : SendChat(prompt)
ChatWorkerAny == \E i \in 1..Len(chat_workers) : ChatWorkerStep(i)
StartSearchAny == \E query \in Queries : StartSearch(query)
SearchWorkerAny == \E i \in 1..Len(search_workers) : SearchWorkerStep(i)
DeleteModelAny == \E name \in ModelNames : DeleteModel(name)

\* pulls only: the control loop polls, the user starts pulls, the workers run
NextPull ==
    \/ UpdateAny
    \/ StartPullAny
    \/ PullWorkerAny

SpecPull == Init /\ [][NextPull]_vars

\* chats only
NextChat ==
    \/ UpdateAny
    \/ SendChatAny
    \/ CancelChat
    \/ ClearChat
    \/ ChatWorkerAny

SpecChat == Init /\ [][NextChat]_vars

\* the whole orchestrator with its three kinds of worker
Next ==
    \/ UpdateAny
    \/ StartPullAny
    \/ SendChatAny
    \/ StartSearchAny
    \/ CancelChat
    \/ DeleteModelAny
    \/ LoadModel
    \/ UnloadModel
    \/ PullWorkerAny
    \/ ChatWorkerAny
    \/ SearchWorkerAny

Spec == Init /\ [][Next]_vars

\* the scenario start_pull("phi3") with its scripted stream
StartPullPhi3 == pull_workers = << >> /\ StartPull("phi3")
ScriptedPullWorkerAny == \E i \in 1..Len(pull_workers) : ScriptedPullWorkerStep(i)
UpdateVaried == \E p \in ProcessLists, h \in HttpOutcomes : Update(p, h)

NextScenario ==
    \/ UpdateVaried
    \/ StartPullPhi3
    \/ ScriptedPullWorkerAny
    \/ SelectNext
    \/ SelectPrev

SpecScenario == Init /\ [][NextScenario]_vars

\* the control loop with its tabs, the pull prompt and the pull workers
TickAny == Tick(ProcsOllama, HttpOk)
KeySwitchTabAny == \E tab \in Tabs : KeySwitchTab(tab)
KeyPullPromptEnterAny == \E name \in ModelNames : KeyPullPromptEnter(name)

NextApp ==
    \/ TickAny
    \/ KeySwitchTabAny
    \/ KeyOpenPullPrompt
    \/ KeyPullPromptEnterAny
    \/ KeyPullPromptEsc
    \/ PullWorkerAny

SpecApp == Init /\ [][NextApp]_vars

----------------------------------------------------------------------------
(* Properties *)

\* the message stream of one pull worker: Progress messages, closed by a
\* terminal message exactly when the worker has returned
PullStreamWellFormed(w) ==
    /\ \A k \in 1..(Len(w.sent) - 1) : w.sent[k].tag = "Progress"
    /\ (w.pc = "done") <=> (w.sent # << >> /\ IsPullTerminal(Last(w.sent)))

\* C1: every pull worker, whatever the HTTP outcome and the stream content,
\* sends exactly one terminal message (Done or Error); it is the last message
\* the worker sends and every earlier message is a Progress.
C1_PullOneTerminalLast ==
    \A i \in 1..Len(pull_workers) : PullStreamWellFormed(pull_workers[i])

\* a worker that streamed a Progress and then closed its stream with Done,
\* and one that failed before any Progress
C1_Witness ==
    /\ \E i \in 1..Len(pull_workers) :
          /\ pull_workers[i].pc = "done"
          /\ Len(pull_workers[i].sent) = 2
          /\ pull_workers[i].sent[2] = PullDone
    /\ \E i \in 1..Len(pull_workers) :
          /\ pull_workers[i].pc = "done"
          /\ Len(pull_workers[i].sent) = 1
          /\ pull_workers[i].sent[1].tag = "Error"

\* the newest pull worker
NewestPull == Len(pull_workers)

C5_StartPullState ==
    /\ \A name \in ModelNames : last_op = StartPullOp(name) =>
          /\ ai.pull_receiver = Some(NewestPull)
          /\ ai.pull_model_name = Some(name)
          /\ ai.pull_status = Some(PullProgress(T_starting_pull, None))
          /\ pull_workers[NewestPull].pc = "connect"
    /\ \A i \in 1..(NewestPull - 1) :
          /\ ai.pull_receiver # Some(i)
          /\ pull_workers[i].queue = << >>
          /\ pull_workers[i].pc # "done" => ENABLED PullWorkerStep(i)
    /\ TotalWorkers < MaxWorkers => ENABLED StartPullAny

C5_StartPullStep ==
    /\ \A i \in 1..(Len(pull_workers') - 1) :
          pull_workers'[i].drained = pull_workers[i].drained
    /\ IsStartPullOp(last_op') =>
          \A i \in 1..Len(pull_workers) :
              /\ pull_workers'[i].pc = pull_workers[i].pc
              /\ pull_workers'[i].sent = pull_workers[i].sent
    /\ (/\ last_op' = "update"
        /\ pull_workers # << >>
        /\ ai.pull_receiver = Some(NewestPull)
        /\ pull_workers[NewestPull].sent = << >>)
          => ai'.pull_status = ai.pull_status

\* C5: a second start_pull while a pull is in flight is accepted: afterwards
\* pull_model_name is the new name, pull_status is the fresh "Starting
\* pull..." Progress and the handle is the new worker's; no message of the
\* earlier worker is received afterwards; the earlier worker is not
\* cancelled: the call leaves it as it was and it runs on to its terminal
\* message.
C5_SecondPullAbandonsFirst == [](C5_StartPullState) /\ [][C5_StartPullStep]_vars

\* the first pull was abandoned while connecting, completed afterwards, and
\* an update left the second pull's status at "Starting pull..."
C5_Witness ==
    /\ Len(pull_workers) = 2
    /\ pull_workers[1].pc = "done"
    /\ pull_workers[1].drained = 0
    /\ pull_workers[1].sent # << >>
    /\ pull_workers[2].sent = << >>
    /\ last_op = "update"
    /\ ai.pull_status = Some(PullProgress(T_starting_pull, None))

\* the newest chat worker
NewestChat == Len(chat_workers)

\* what a chat shows: transcript, status, metrics and the tokens/sec records
ChatView(self) ==
    << self.chat_messages, self.chat_status, self.chat_metrics,
       self.tps_history, self.last_tps >>

HasTag(seq, tag) == \E k \in 1..Len(seq) : seq[k].tag = tag

\* chat worker i streamed at least one delta and returned without a Done
ClosedMidStream(w) ==
    /\ w.pc = "done"
    /\ w.sent # << >>
    /\ w.sent[1].tag = "FirstToken"
    /\ ~HasTag(w.sent, "Done")

\* The statement of C2 as the specification words it: a chat worker whose
\* stream closes after a delta and before a done event still sends a terminal
\* message, the generic Error, and the chat state ends as that Error.
C2_MidStreamCloseSendsError ==
    \A i \in 1..Len(chat_workers) :
        ClosedMidStream(chat_workers[i]) =>
            /\ Last(chat_workers[i].sent) = TokError(MSG_NO_CHAT_RESPONSE)
            /\ (/\ last_op = "update"
                /\ i = NewestChat
                /\ chat_workers[i].drained = Len(chat_workers[i].sent))
                  => ai.chat_status = ChatError(MSG_NO_CHAT_RESPONSE)

C2_ClosedState ==
    \A i \in 1..Len(chat_workers) :
        ClosedMidStream(chat_workers[i]) =>
            \A k \in 1..Len(chat_workers[i].sent) :
                chat_workers[i].sent[k].tag \in {"FirstToken", "Token"}

C2_ClosedStep ==
    \A i \in 1..Len(chat_workers) :
        (/\ last_op' = "update"
         /\ ai.chat_receiver = Some(i)
         /\ ClosedMidStream(chat_workers[i]))
          => /\ ai'.chat_receiver = None
             /\ ai'.chat_status =
                   IF ai.chat_status = ChatGenerating THEN ChatDone ELSE ai.chat_status
             /\ chat_workers'[i].drained = Len(chat_workers[i].sent)

\* C2 (amended): when a chat stream closes, or hits a read error, after at
\* least one non-empty delta and before a done event, the worker sends no
\* terminal message: its stream holds only FirstToken and Token messages and
\* the worker just returns. The update that finds the queue closed receives
\* what is left, drops the handle and turns Generating into Done (any other
\* status is kept); the chat state does not become Error.
C2_MidStreamCloseEndsDone == [](C2_ClosedState) /\ [][C2_ClosedStep]_vars

\* a chat whose stream closed after its first delta, shown as Done
C2_Witness ==
    /\ Len(chat_workers) = 1
    /\ ClosedMidStream(chat_workers[1])
    /\ chat_workers[1].drained = Len(chat_workers[1].sent)
    /\ last_op = "update"
    /\ ai.chat_receiver = None
    /\ ai.chat_status = ChatDone
    /\ IsSome(ai.chat_metrics)

C3_StartChatState ==
    /\ last_op = "start_chat" =>
          /\ ai.chat_status = ChatGenerating
          /\ ai.chat_receiver = Some(NewestChat)
          /\ chat_workers[NewestChat].pc = "connect"
    /\ \A i \in 1..(NewestChat - 1) :
          /\ ai.chat_receiver # Some(i)
          /\ chat_workers[i].queue = << >>

C3_StartChatStep ==
    /\ \A i \in 1..(Len(chat_workers') - 1) :
          chat_workers'[i].drained = chat_workers[i].drained
    /\ (/\ last_op' = "update"
        /\ chat_workers # << >>
        /\ ai.chat_receiver = Some(NewestChat)
        /\ chat_workers[NewestChat].sent = << >>
        /\ chat_workers[NewestChat].pc # "done")
          => ChatView(ai') = ChatView(ai)

\* C3: after start_chat chat_status is Generating and the handle is the
\* newest worker's. No message of an earlier chat worker, sent before or
\* after the new start_chat, is ever received, and while the newest worker
\* has sent nothing an update changes neither the transcript nor chat_status,
\* chat_metrics, tps_history or last_tps.
C3_OnlyNewestChatIsCurrent == [](C3_StartChatState) /\ [][C3_StartChatStep]_vars

\* the first chat worker finished its stream after the second chat was
\* started; an update left the second chat generating, its answer empty
C3_Witness ==
    /\ Len(chat_workers) = 2
    /\ chat_workers[1].pc = "done"
    /\ HasTag(chat_workers[1].sent, "Done")
    /\ chat_workers[1].drained = 0
    /\ chat_workers[2].sent = << >>
    /\ last_op = "update"
    /\ ai.chat_status = ChatGenerating
    /\ ai.chat_messages # << >>
    /\ Last(ai.chat_messages).content = << >>
    /\ IsNone(ai.chat_metrics)

\* a send into an orphaned channel leaves the worker where a send into a
\* live one does
SendsIgnoreOrphaning ==
    \A i \in 1..Len(chat_workers) :
        chat_workers[i].pc # "done" =>
            \A ev \in ChatEvents(chat_workers[i]) :
                [chat_worker_step(chat_workers[i], ev, FALSE) EXCEPT !.queue = << >>]
                  = [chat_worker_step(chat_workers[i], ev, TRUE) EXCEPT !.queue = << >>]

C4_CancelStep ==
    /\ last_op' = "cancel_chat" =>
          ai' = [ai EXCEPT !.chat_receiver = None,
                           !.chat_status = IF ai.chat_status = ChatGenerating
                                           THEN ChatIdle ELSE ai.chat_status]
    /\ (last_op' = "update" /\ IsNone(ai.chat_receiver)) =>
          /\ ChatView(ai') = ChatView(ai)
          /\ IsNone(ai'.chat_receiver)
    /\ \A i \in 1..Len(chat_workers) :
          ai.chat_receiver # Some(i) =>
              chat_workers'[i].drained = chat_workers[i].drained

\* C4: cancel_chat drops the handle and changes chat_status to Idle exactly
\* when it was Generating, leaving everything else as it was. With the handle
\* dropped no update receives a message of the cancelled worker or changes
\* the transcript, chat_status or chat_metrics, and the worker's sends have
\* the same effect on the worker as sends into a live channel.
C4_CancelChat == [](SendsIgnoreOrphaning) /\ [][C4_CancelStep]_vars

\* a chat cancelled before anything was received, whose worker then streamed
\* a delta and its Done; after an update the chat is Idle and its answer empty
C4_Witness ==
    /\ Len(chat_workers) = 1
    /\ chat_workers[1].pc = "done"
    /\ chat_workers[1].drained = 0
    /\ Len(chat_workers[1].sent) = 2
    /\ Last(chat_workers[1].sent).tag = "Done"
    /\ last_op = "update"
    /\ IsNone(ai.chat_receiver)
    /\ ai.chat_status = ChatIdle
    /\ ai.chat_messages # << >>
    /\ Last(ai.chat_messages).content = << >>

\* the messages of the scenario's worker, in production order
PhiStream ==
    << PullProgress(T_pulling, Some(10)), PullProgress(T_pulling, Some(60)), PullDone >>

IsPrefix(a, b) == Len(a) <= Len(b) /\ \A k \in 1..Len(a) : a[k] = b[k]

\* the position of a pull_status in
\* [Progress("Starting pull..."), Progress(10%), Progress(60%), Done]
PhiRank(status) ==
    IF IsNone(status) THEN 0
    ELSE IF status = Some(PullProgress(T_starting_pull, None)) THEN 1
    ELSE IF \E k \in 1..Len(PhiStream) : status = Some(PhiStream[k])
         THEN 1 + (CHOOSE k \in 1..Len(PhiStream) : status = Some(PhiStream[k]))
         ELSE 0 - 1

C7_PhiState ==
    pull_workers # << >> =>
        LET w == pull_workers[1]
        IN  /\ IsPrefix(w.sent, PhiStream)
            /\ ai.pull_status =
                  IF w.drained = 0 THEN Some(PullProgress(T_starting_pull, None))
                  ELSE Some(PhiStream[w.drained])
            /\ (w.pc = "done" /\ w.queue = << >>) =>
                  ai.pull_status = Some(PullDone) /\ IsNone(ai.pull_receiver)

C7_PhiStep ==
    /\ PhiRank(ai'.pull_status) >= PhiRank(ai.pull_status)
    /\ PhiRank(ai'.pull_status) >= 0
    /\ ai'.pull_status # ai.pull_status =>
          last_op' = "update" \/ IsStartPullOp(last_op')
    /\ (ai.pull_status = Some(PullDone) /\ ~IsStartPullOp(last_op')) =>
          ai'.pull_status = Some(PullDone)

\* C7: with a worker that produces Progress(10%), Progress(60%), Done in that
\* order, pull_status after every update is the newest message received so
\* far in production order ("Starting pull..." before the first), so the
\* values seen are an order-preserving subsequence of [Starting, 10%, 60%,
\* Done]; it is Done once everything was received, never moves to an earlier
\* message and stays Done until the next start_pull.
C7_PullStatusFollowsProduction == [](C7_PhiState) /\ [][C7_PhiStep]_vars

\* the pull of "phi3" shown as Done after three messages were received
C7_Witness ==
    /\ Len(pull_workers) = 1
    /\ pull_workers[1].sent = PhiStream
    /\ pull_workers[1].drained = 3
    /\ last_op = "update"
    /\ ai.pull_status = Some(PullDone)
    /\ ai.pull_model_name = Some("phi3")

\* every in-flight worker's queue is empty
QueuesDrained(self, pw, cw, sw) ==
    /\ queue_of(pw, self.pull_receiver) = << >>
    /\ queue_of(cw, self.chat_receiver) = << >>
    /\ queue_of(sw, self.search_receiver) = << >>

\* The statement of C8 as the specification words it: every refresh tick,
\* whichever tab is active, runs update once and so drains the queue of
\* every in-flight worker.
C8_EveryTickUpdates ==
    [][last_op' = "refresh" =>
          /\ ai' = UpdateResult(ProcsOllama, HttpOk).self
          /\ QueuesDrained(ai', pull_workers', chat_workers', search_workers')]_vars

\* C8 (amended): a refresh tick calls AiMetrics::update, once, only when the
\* AI tab is the active tab: then the queue of every in-flight worker is
\* drained. On a tick with any other tab active update is not called: the
\* AI state and the workers' queues are left as they are.
C8_TickUpdatesOnAiTabOnly ==
    [][last_op' = "refresh" =>
          IF app.current_tab = "Ai"
          THEN /\ ai' = UpdateResult(ProcsOllama, HttpOk).self
               /\ QueuesDrained(ai', pull_workers', chat_workers', search_workers')
          ELSE /\ ai' = ai
               /\ pull_workers' = pull_workers
               /\ chat_workers' = chat_workers
               /\ search_workers' = search_workers]_vars

\* a tick on another tab left the messages of the pull in flight queued
C8_Witness ==
    /\ last_op = "refresh"
    /\ app.current_tab # "Ai"
    /\ IsSome(ai.pull_receiver)
    /\ Len(queue_of(pull_workers, ai.pull_receiver)) = 2
    /\ ai.pull_status = Some(PullProgress(T_starting_pull, None))

\* a queue holds a terminal message
HasTerminal(q) == \E k \in 1..Len(q) : q[k].tag \in {"Done", "Error", "Results"}

\* the worker behind Receiver rx has returned: its Sender is gone
Closed(workers, rx) == IsSome(rx) /\ workers[Unwrap(rx)].pc = "done"

\* after an update a handle that is kept belongs to a worker still running
\* whose queue is empty
C6_HandleState ==
    last_op = "update" =>
        /\ IsSome(ai.pull_receiver) =>
              ~Closed(pull_workers, ai.pull_receiver)
              /\ queue_of(pull_workers, ai.pull_receiver) = << >>
        /\ IsSome(ai.chat_receiver) =>
              ~Closed(chat_workers, ai.chat_receiver)
              /\ queue_of(chat_workers, ai.chat_receiver) = << >>
        /\ IsSome(ai.search_receiver) =>
              ~Closed(search_workers, ai.search_receiver)
              /\ queue_of(search_workers, ai.search_receiver) = << >>

C6_HandleStep ==
    /\ last_op' = "update" =>
          /\ (HasTerminal(queue_of(pull_workers, ai.pull_receiver))
                \/ Closed(pull_workers, ai.pull_receiver))
                => IsNone(ai'.pull_receiver)
          /\ (HasTerminal(queue_of(chat_workers, ai.chat_receiver))
                \/ Closed(chat_workers, ai.chat_receiver))
                => IsNone(ai'.chat_receiver)
          /\ (HasTerminal(queue_of(search_workers, ai.search_receiver))
                \/ Closed(search_workers, ai.search_receiver))
                => IsNone(ai'.search_receiver)
    /\ (IsNone(ai.pull_receiver) /\ IsSome(ai'.pull_receiver)) => IsStartPullOp(last_op')
    /\ (IsNone(ai.chat_receiver) /\ IsSome(ai'.chat_receiver)) => last_op' = "start_chat"
    /\ (IsNone(ai.search_receiver) /\ IsSome(ai'.search_receiver))
          => last_op' = "start_search"

\* C6: for pull, chat and search alike, an update that receives a terminal
\* message (Done, Error, Results), or finds the queue closed without one,
\* leaves the handle None; a handle still held after an update belongs to a
\* worker that has not returned; and a handle that is None becomes Some only
\* by start_pull, start_chat or start_search.
C6_HandleOnlyWhileInFlight == [](C6_HandleState) /\ [][C6_HandleStep]_vars

\* a chat whose queue closed without a terminal message and a search whose
\* result was received: both handles are gone
C6_Witness ==
    /\ Len(chat_workers) = 1 /\ Len(search_workers) = 1
    /\ ClosedMidStream(chat_workers[1])
    /\ chat_workers[1].drained = Len(chat_workers[1].sent)
    /\ search_workers[1].drained = 1
    /\ last_op = "update"
    /\ IsNone(ai.chat_receiver)
    /\ IsNone(ai.search_receiver)

\* Receiver rx belongs to a running worker that has nothing queued
EmptyInFlight(workers, rx) ==
    IsSome(rx) /\ workers[Unwrap(rx)].pc # "done" /\ workers[Unwrap(rx)].queue = << >>

\* update runs through to its last statement, the push to cpu_history
UpdateCompletes ==
    LET r == UpdateResult(ProcsOllama, HttpOk)
    IN  r.self.cpu_history = History_push(ai.cpu_history, r.self.aggregate_cpu)

\* the control-loop operations can be taken whatever the workers are doing
C9_NeverWaits ==
    /\ UpdateCompletes
    /\ ENABLED CancelChat
    /\ ENABLED DeleteModelAny
    /\ IsSome(selected_model_name(ai)) => ENABLED LoadModel /\ ENABLED UnloadModel
    /\ TotalWorkers < MaxWorkers =>
          /\ ENABLED StartPullAny
          /\ ENABLED StartSearchAny
          /\ has_loaded_model(ai) => ENABLED SendChatAny

C9_EmptyQueueStep ==
    last_op' = "update" =>
        /\ EmptyInFlight(pull_workers, ai.pull_receiver) =>
              /\ ai'.pull_status = ai.pull_status
              /\ ai'.pull_receiver = ai.pull_receiver
        /\ EmptyInFlight(chat_workers, ai.chat_receiver) =>
              /\ ai'.chat_status = ai.chat_status
              /\ ai'.chat_messages = ai.chat_messages
              /\ ai'.chat_metrics = ai.chat_metrics
              /\ ai'.chat_receiver = ai.chat_receiver
        /\ EmptyInFlight(search_workers, ai.search_receiver) =>
              /\ ai'.search_results = ai.search_results
              /\ ai'.search_status = ai.search_status
              /\ ai'.search_receiver = ai.search_receiver

\* C9: update and the user actions (start_pull, start_chat, start_search,
\* cancel_chat, delete_model, load_model, unload_model) can always be taken,
\* whatever state the workers are in; an update that finds the queue of a
\* worker in flight empty leaves that worker's status (pull_status; or
\* chat_status, transcript and chat_metrics; or search_results and
\* search_status) and its handle unchanged.
C9_DrainingNeverBlocks == [](C9_NeverWaits) /\ [][C9_EmptyQueueStep]_vars

\* an update made while a pull and a search were in flight with nothing sent
C9_Witness ==
    /\ last_op = "update"
    /\ EmptyInFlight(pull_workers, ai.pull_receiver)
    /\ pull_workers[Unwrap(ai.pull_receiver)].sent = << >>
    /\ EmptyInFlight(search_workers, ai.search_receiver)
    /\ ai.pull_status = Some(PullProgress(T_starting_pull, None))

WorkerOps == {"pull_worker", "chat_worker", "search_worker"}

\* worker i of a kind only appended messages to its stream
OnlySent(old, new) ==
    /\ Len(new) = Len(old)
    /\ \A i \in 1..Len(old) :
          /\ IsPrefix(old[i].sent, new[i].sent)
          /\ IsPrefix(old[i].queue, new[i].queue)
          /\ new[i].drained = old[i].drained

C10_WorkerStep ==
    /\ last_op' \in WorkerOps =>
          /\ ai' = ai
          /\ app' = app
          /\ OnlySent(pull_workers, pull_workers')
          /\ OnlySent(chat_workers, chat_workers')
          /\ OnlySent(search_workers, search_workers')
    /\ ai' # ai => last_op' \notin WorkerOps

\* C10: no step of a pull, chat or search worker changes the orchestrator's
\* state (registries, transcript, statuses, metrics, histories, cursors);
\* a worker step only appends to a message stream; the orchestrator's state
\* changes only in update and in the user's actions.
C10_SingleWriter == [][C10_WorkerStep]_vars

\* a chat worker has queued its first delta and the transcript's answer is
\* still empty
C10_Witness ==
    /\ last_op = "chat_worker"
    /\ ai.chat_receiver = Some(1)
    /\ chat_workers[1].queue # << >>
    /\ chat_workers[1].queue[1].tag = "FirstToken"
    /\ ai.chat_status = ChatGenerating
    /\ Last(ai.chat_messages).content = << >>
    /\ IsNone(ai.chat_metrics)

----------------------------------------------------------------------------
(* The cursor of the model list under delete_model, select_next, select_prev *)

MaxModels == 3

\* the names a registry can hold, and a name that is never installed
RegistryNames == ModelNames \cup {"mistral"}
T_ghost == "ghost"

\* the model lists /api/tags can have returned: no name twice
RegistryLists ==
    { l \in UNION { [1..n -> RegistryNames] : n \in 0..MaxModels } :
        \A a, b \in 1..Len(l) : l[a] = l[b] => a = b }

InstalledList(l) == [k \in 1..Len(l) |-> InstalledModel(l[k])]

\* model_selected is a valid index of ollama_models, and 0 for an empty list
CursorInBounds(self) ==
    IF self.ollama_models = << >> THEN self.model_selected = 0
    ELSE self.model_selected \in 0..(Len(self.ollama_models) - 1)

\* a detected Ollama with any registry and any in-bounds cursor
InitCursor ==
    /\ \E l \in RegistryLists :
       \E c \in 0..saturating_sub(Len(l), 1) :
          ai = [AiMetrics_new EXCEPT !.ollama_available = TRUE,
                                     !.ollama_models = InstalledList(l),
                                     !.model_selected = c]
    /\ pull_workers = << >> /\ chat_workers = << >> /\ search_workers = << >>
    /\ now = 0
    /\ app = [current_tab |-> "Ai", ai_input_mode |-> "Normal",
              ai_confirm_delete |-> None]
    /\ last_op = "new"

DeleteModelListed == \E name \in RegistryNames \cup {T_ghost} : DeleteModel(name)

NextCursor ==
    \/ DeleteModelListed
    \/ SelectNext
    \/ SelectPrev

SpecCursor == InitCursor /\ [][NextCursor]_vars

\* C11: for any sequence of delete_model calls, with names present in or
\* absent from the list, interleaved with select_next and select_prev and
\* started from an in-bounds cursor, model_selected stays a valid index of
\* the model list (0..len-1) and is 0 when the list is empty.
C11_CursorInBoundsUnderDeletes == CursorInBounds(ai)

\* the last entry was deleted with the cursor on it, and the cursor moved back
C11_Witness ==
    /\ last_op = "delete_model"
    /\ Len(ai.ollama_models) = 2
    /\ ai.model_selected = 1
    /\ \A k \in 1..2 : ai.ollama_models[k].name # "mistral"

----------------------------------------------------------------------------
(* The cursor under the poller's replacement of the model list *)

MaxTime == 5

\* a second passes on the monotonic clock (Instant::elapsed, ai.rs:432)
AdvanceTime ==
    /\ now < MaxTime
    /\ now' = now + 1
    /\ last_op' = "advance_time"
    /\ UNCHANGED <<ai, pull_workers, chat_workers, search_workers, app>>

\* /api/tags after a model was removed outside the program
HttpShort == [ version |-> Some("0.5.1"),
               tags |-> Some(<<InstalledModel("phi3")>>),
               ps |-> Some(<< >>) ]
RegistryOutcomes == {HttpOk, HttpShort, HttpFail}

UpdateRegistry == \E p \in ProcessLists, h \in RegistryOutcomes : Update(p, h)

NextRegistry ==
    \/ UpdateRegistry
    \/ SelectNext
    \/ SelectPrev
    \/ AdvanceTime

SpecRegistry == Init /\ [][NextRegistry]_vars

\* C12: the cursor is clamped on every mutation of the model list, not only
\* on deletion: after any update() in which the poller replaces the list
\* with a shorter one or clears it because Ollama is no longer detected,
\* model_selected is a valid index of the list, and 0 when it is empty.
C12_CursorInBoundsAfterUpdate == last_op = "update" => CursorInBounds(ai)

----------------------------------------------------------------------------
(* The message stream of a chat worker *)

\* the delta text of a stream line; empty when the line carries none
Delta(line) ==
    IF IsSome(line.message) /\ IsSome(Unwrap(line.message).content)
    THEN Unwrap(Unwrap(line.message).content) ELSE << >>

\* the send log of a chat worker: a FirstToken only in first place, Tokens
\* only after it, a Done or an Error only in last place
ChatStreamWellFormed(w) ==
    /\ \A k \in 1..Len(w.sent) :
          /\ w.sent[k].tag = "FirstToken" =>
                k = 1 /\ w.sent[k].text # << >> /\ w.sent[k].ttft \in ElapsedMs
          /\ w.sent[k].tag = "Token" =>
                k > 1 /\ w.sent[1].tag = "FirstToken" /\ w.sent[k].text # << >>
          /\ IsChatTerminal(w.sent[k]) => k = Len(w.sent) /\ w.pc = "done"
    /\ w.first_token <=> ~HasTag(w.sent, "FirstToken")

\* what the worker sends for each line it may read next
C13_LineRule ==
    \A i \in 1..Len(chat_workers) :
       chat_workers[i].pc = "read" =>
          \A l \in ChatLines, e \in ElapsedMs, alive \in BOOLEAN :
             LET w == chat_workers[i]
                 r == chat_worker_read(w, [kind |-> "json", line |-> l, elapsed |-> e],
                                       alive)
             IN  IF unwrap_or(l.done, FALSE)
                 THEN /\ Len(r.sent) = Len(w.sent) + 1
                      /\ Last(r.sent).tag = "Done"
                 ELSE IF Delta(l) = << >>
                 THEN r.sent = w.sent
                 ELSE IF HasTag(w.sent, "FirstToken")
                 THEN r.sent = Append(w.sent, TokToken(Delta(l)))
                 ELSE r.sent = Append(w.sent, TokFirstToken(Delta(l), e))

\* once a worker has sent a Done or an Error it sends nothing more
C13_SilentAfterTerminal ==
    \A i \in 1..Len(chat_workers) :
       (chat_workers[i].sent # << >> /\ IsChatTerminal(Last(chat_workers[i].sent)))
          => chat_workers'[i].sent = chat_workers[i].sent

\* C13: a chat worker sends its first non-empty delta as FirstToken (with the
\* time to first token) and every later one as Token; it sends at most one
\* FirstToken, before every Token; a line with empty or absent content sends
\* nothing; nothing is sent after a Done or an Error.
C13_FirstTokenThenTokens ==
    /\ [](\A i \in 1..Len(chat_workers) : ChatStreamWellFormed(chat_workers[i]))
    /\ []C13_LineRule
    /\ [][C13_SilentAfterTerminal]_vars

\* a worker that sent two deltas, and one that read two lines of which only
\* one carried a delta
C13_Witness ==
    /\ \E i \in 1..Len(chat_workers) :
          /\ Len(chat_workers[i].sent) = 2
          /\ chat_workers[i].sent[1] = TokFirstToken(T_hi, 120)
          /\ chat_workers[i].sent[2] = TokToken(T_hi)
    /\ \E i \in 1..Len(chat_workers) :
          /\ chat_workers[i].nread = 2
          /\ chat_workers[i].sent = <<TokFirstToken(T_hi, 120)>>

----------------------------------------------------------------------------
(* The time to first token in the final metrics *)

\* the TTFT carried by the FirstToken of a send log
FirstTokenTtft(sent) == sent[1].ttft

\* an update drains the Done of the current chat worker i
DrainsDone(i) ==
    /\ last_op' = "update"
    /\ ai.chat_receiver = Some(i)
    /\ chat_workers[i].queue # << >>
    /\ Last(chat_workers[i].queue).tag = "Done"

\* C14: when Done(metrics) is drained after the FirstToken of the same turn,
\* carrying TTFT t, was drained, and the Done's ttft_ms is 0, the final
\* chat_metrics.ttft_ms is t and every other field is the Done's; a non-zero
\* ttft_ms in Done is kept as is.
C14_DoneStep ==
    \A i \in 1..Len(chat_workers) :
       DrainsDone(i) =>
          LET w == chat_workers[i]
              m == Last(w.sent).metrics
          IN  ai'.chat_metrics =
                 Some([m EXCEPT !.ttft_ms =
                         IF m.ttft_ms = 0 /\ HasTag(w.sent, "FirstToken")
                         THEN FirstTokenTtft(w.sent) ELSE m.ttft_ms])

\* C14: the final chat_metrics keep the TTFT of the drained FirstToken when
\* the Done carries ttft_ms 0 (every step satisfies the rule above)
C14_DoneKeepsFirstTokenTtft == [][C14_DoneStep]_vars

----------------------------------------------------------------------------
(* The transcript under update() *)

\* the text of the deltas an update drains from the queue q
RECURSIVE DrainedText(_)
DrainedText(q) ==
    IF q = << >> \/ IsChatTerminal(Head(q)) THEN << >>
    ELSE Head(q).text \o DrainedText(Tail(q))

\* the queue the next update drains
CurrentChatQueue == queue_of(chat_workers, ai.chat_receiver)

T_user == [role |-> "user", content |-> T_why]

\* a text is appended to nothing when the last entry is the user's
C15_UserEntryUntouched ==
    LET t == Append(ai.chat_messages, T_user)
    IN  append_to_assistant(t, T_hi) = t

\* an update appends the drained text to the last entry when it is the
\* assistant's, and changes nothing else of the transcript
C15_UpdateStep ==
    last_op' = "update" =>
       LET old == ai.chat_messages
           new == ai'.chat_messages
           n == Len(old)
       IN  /\ Len(new) = n
           /\ \A k \in 1..(n - 1) : new[k] = old[k]
           /\ n > 0 =>
                 /\ new[n].role = old[n].role
                 /\ new[n].content =
                       IF old[n].role = "assistant"
                       THEN old[n].content \o DrainedText(CurrentChatQueue)
                       ELSE old[n].content

\* C15: draining a Token or FirstToken appends its text to the content of
\* the last transcript entry if and only if that entry exists and its role
\* is assistant; no other entry is modified and update() never changes the
\* number of entries.
C15_DeltasGoToLastAssistantEntry ==
    /\ []C15_UserEntryUntouched
    /\ [][C15_UpdateStep]_vars

\* the second turn's delta is in the second placeholder and the first
\* placeholder is as it was
C15_Witness ==
    /\ last_op = "update"
    /\ Len(ai.chat_messages) = 4
    /\ ai.chat_messages[4] = [role |-> "assistant", content |-> T_hi]
    /\ ai.chat_messages[2] = [role |-> "assistant", content |-> << >>]

----------------------------------------------------------------------------
(* The end-to-end chat: the reply "Hello" streamed in two deltas *)

T_Hel == <<"H","e","l">>
T_lo == <<"l","o">>

ChatScript ==
    << [kind |-> "json", line |-> CL_token(T_Hel), elapsed |-> 120],
       [kind |-> "blank"],
       [kind |-> "json", line |-> CL_token(T_lo), elapsed |-> 130],
       [kind |-> "json", line |-> CL_empty, elapsed |-> 135],
       [kind |-> "json", line |-> CL_done, elapsed |-> 140] >>

\* the chat worker reads the scripted stream
ScriptedChatWorkerStep(i) ==
    /\ chat_workers[i].pc # "done"
    /\ LET w == chat_workers[i]
           ev == IF w.pc = "connect" THEN [kind |-> "ok"]
                 ELSE IF w.nread < Len(ChatScript) THEN ChatScript[w.nread + 1]
                 ELSE [kind |-> "eof"]
       IN  chat_workers' = [chat_workers EXCEPT
              ![i] = chat_worker_step(@, ev, ai.chat_receiver = Some(i))]
    /\ last_op' = "chat_worker"
    /\ UNCHANGED <<ai, pull_workers, search_workers, now, app>>

ScriptedChatWorkerAny == \E i \in 1..Len(chat_workers) : ScriptedChatWorkerStep(i)

NextChatScenario ==
    \/ UpdateAny
    \/ SendChatAny
    \/ CancelChat
    \/ ClearChat
    \/ ScriptedChatWorkerAny

SpecChatScenario == Init /\ [][NextChatScenario]_vars

\* the concatenation of the deltas of a sequence of chat messages
RECURSIVE TextOf(_)
TextOf(msgs) ==
    IF msgs = << >> THEN << >>
    ELSE (IF Head(msgs).tag \in {"Token", "FirstToken"} THEN Head(msgs).text ELSE << >>)
         \o TextOf(Tail(msgs))

\* the concatenation of the non-empty deltas of the scripted stream
RECURSIVE ScriptText(_)
ScriptText(script) ==
    IF script = << >> THEN << >>
    ELSE (IF Head(script).kind = "json" THEN Delta(Head(script).line) ELSE << >>)
         \o ScriptText(Tail(script))

\* the placeholder of the newest turn, while the transcript holds it
C16_PlaceholderState ==
    (NewestChat > 0 /\ ai.chat_messages # << >>) =>
       LET w == chat_workers[NewestChat]
           content == Last(ai.chat_messages).content
       IN  /\ content = TextOf(SubSeq(w.sent, 1, w.drained))
           /\ IsPrefix(content, ScriptText(ChatScript))
           /\ (w.drained > 0 /\ w.sent[w.drained].tag = "Done") =>
                  content = ScriptText(ChatScript)

\* C16: while a chat turn is current, the content of its assistant
\* placeholder is always a prefix of the concatenation of the worker's
\* non-empty deltas in the order the worker produced them, whatever the
\* number of update() calls, and after Done is drained it is the full
\* concatenation.
C16_PlaceholderFollowsProduction == C16_PlaceholderState

\* both deltas and the Done were drained: the placeholder reads "Hello"
C16_Witness ==
    /\ NewestChat > 0
    /\ chat_workers[NewestChat].drained = 3
    /\ ai.chat_status = ChatDone
    /\ ai.chat_messages # << >>
    /\ Last(ai.chat_messages).content = <<"H","e","l","l","o">>

----------------------------------------------------------------------------
(* A chat Error in the queue *)

\* an update drains an Error of the current chat worker i
DrainsError(i) ==
    /\ last_op' = "update"
    /\ ai.chat_receiver = Some(i)
    /\ chat_workers[i].queue # << >>
    /\ Head(chat_workers[i].queue).tag = "Error"

C17_ErrorStep ==
    \A i \in 1..Len(chat_workers) :
       DrainsError(i) =>
          /\ ai'.chat_status = ChatError(Head(chat_workers[i].queue).msg)
          /\ ai'.chat_receiver = None
          /\ ai'.chat_messages = ai.chat_messages
          /\ ai'.chat_metrics = ai.chat_metrics
          /\ chat_workers'[i].drained = chat_workers[i].drained + 1

\* an Error is the first message of the queue that holds it
C17_ErrorIsFirst ==
    \A i \in 1..Len(chat_workers) :
       \A k \in 1..Len(chat_workers[i].queue) :
          chat_workers[i].queue[k].tag = "Error" => k = 1

\* a message queued behind an Error stays in the queue
C17_StopsAtError ==
    IsSome(ai.chat_receiver) =>
       LET q == <<TokError(MSG_NO_CHAT_RESPONSE), TokToken(T_hi)>>
       IN  poll_chat(ai, q, TRUE) =
              [self |-> [ai EXCEPT !.chat_status = ChatError(MSG_NO_CHAT_RESPONSE),
                                   !.chat_receiver = None],
               q |-> Tail(q)]

\* once the Error of a worker was received nothing more is received from it
C17_NothingAfterError ==
    \A i \in 1..Len(chat_workers) :
       LET w == chat_workers[i]
       IN  (w.drained > 0 /\ w.sent[w.drained].tag = "Error")
              => chat_workers'[i].drained = w.drained

\* C17: when update() drains a chat Error(msg), chat_status becomes
\* Error(msg), draining stops and the chat handle is discarded; that message
\* leaves the transcript and chat_metrics unchanged, and no later message of
\* that worker is drained.
C17_ChatErrorStopsTurn ==
    /\ [](C17_ErrorIsFirst /\ C17_StopsAtError)
    /\ [][C17_ErrorStep /\ C17_NothingAfterError]_vars

\* the Error of a stream that ended without a reply was drained
C17_Witness ==
    /\ last_op = "update"
    /\ ai.chat_status = ChatError(MSG_NO_CHAT_RESPONSE)
    /\ ai.chat_receiver = None
    /\ ai.chat_messages # << >>
    /\ \E i \in 1..Len(chat_workers) :
          chat_workers[i].drained = 1 /\ chat_workers[i].sent[1].tag = "Error"

----------------------------------------------------------------------------
(* A chat stream that ends without a reply *)

\* chat worker i leaves its read loop without a done chunk, having met no
\* non-empty delta
EndsWithoutReply(i) ==
    /\ chat_workers[i].pc = "read"
    /\ chat_workers'[i].pc = "done"
    /\ ~HasTag(chat_workers[i].sent, "FirstToken")
    /\ ~HasTag(chat_workers'[i].sent, "Done")

C18_EndStep ==
    \A i \in 1..Len(chat_workers) :
       EndsWithoutReply(i) =>
          chat_workers'[i].sent = <<TokError(MSG_NO_CHAT_RESPONSE)>>

\* whatever ends the stream of a worker that met no delta, end of file or
\* a read error, and whether or not anyone still listens
C18_EndRule ==
    \A i \in 1..Len(chat_workers) :
       (chat_workers[i].pc = "read" /\ ~HasTag(chat_workers[i].sent, "FirstToken")) =>
          \A ev \in StreamEndEvents, alive \in BOOLEAN :
             LET r == chat_worker_step(chat_workers[i], ev, alive)
             IN  r.pc = "done" /\ r.sent = <<TokError(MSG_NO_CHAT_RESPONSE)>>

\* C18: when a chat stream closes before a done event and no non-empty
\* delta was ever emitted (an empty stream, or only blank, unparseable or
\* empty-content lines), the worker sends Error("No response received") as
\* its only message.
C18_NoReplyIsError ==
    /\ []C18_EndRule
    /\ [][C18_EndStep]_vars

\* an empty stream, and a stream of two lines without a delta
C18_Witness ==
    /\ \E i \in 1..Len(chat_workers) :
          /\ chat_workers[i].pc = "done" /\ chat_workers[i].nread = 0
          /\ chat_workers[i].sent = <<TokError(MSG_NO_CHAT_RESPONSE)>>
    /\ \E i \in 1..Len(chat_workers) :
          /\ chat_workers[i].pc = "done" /\ chat_workers[i].nread = 2
          /\ chat_workers[i].sent = <<TokError(MSG_NO_CHAT_RESPONSE)>>

----------------------------------------------------------------------------
(* Tokens per second on the done event *)

\* the eval_count and eval_duration fields of the done events considered
DoneFields ==
    { <<Some(50), Some(2 * NS_PER_SEC)>>, <<Some(2), Some(NS_PER_SEC)>>,
      <<Some(2), None>>, <<None, None>>, <<None, Some(NS_PER_SEC)>>,
      <<Some(2), Some(0)>>, <<Some(0), Some(0)>> }

CL_done_with(f) == ChatLine(Some([content |-> Some(<< >>)]), Some(TRUE), f[1], f[2])

\* the lines of a stream that ends with one of these done events
TpsLines == {CL_token(T_hi)} \cup { CL_done_with(f) : f \in DoneFields }

TpsEvents(w) ==
    IF w.pc = "connect" THEN ChatConnectEvents
    ELSE IF w.nread < MaxChatLines
         THEN {[kind |-> "json", line |-> l, elapsed |-> e] : l \in TpsLines, e \in ElapsedMs}
              \cup StreamEndEvents
         ELSE StreamEndEvents

\* a chat worker takes its next step on such a stream
TpsChatWorkerStep(i) ==
    /\ chat_workers[i].pc # "done"
    /\ \E ev \in TpsEvents(chat_workers[i]) :
          chat_workers' = [chat_workers EXCEPT
              ![i] = chat_worker_step(@, ev, ai.chat_receiver = Some(i))]
    /\ last_op' = "chat_worker"
    /\ UNCHANGED <<ai, pull_workers, search_workers, now, app>>

TpsChatWorkerAny == \E i \in 1..Len(chat_workers) : TpsChatWorkerStep(i)

NextTps ==
    \/ UpdateAny
    \/ SendChatAny
    \/ TpsChatWorkerAny

SpecTps == Init /\ [][NextTps]_vars

\* eval_count * 10^9 / eval_duration with a zero duration taken as 1 ns
TpsWithZeroAsOne(eval_count, eval_duration) ==
    LET d == IF eval_duration = 0 THEN 1 ELSE eval_duration
        g == gcd(NS_PER_SEC, d)
    IN  (eval_count * (NS_PER_SEC \div g)) \div (d \div g)

\* C19: on the done event the chat worker computes tokens_per_sec =
\* eval_count * 10^9 / eval_duration (50 and 2_000_000_000 give 25), an
\* eval_duration of zero being treated as 1 ns, so that the division never
\* has a zero divisor for any done event.
C19_TpsNeverDividesByZero ==
    \A i \in 1..Len(chat_workers) :
       \A k \in 1..Len(chat_workers[i].sent) :
          LET m == chat_workers[i].sent[k]
          IN  m.tag = "Done" =>
                 \E f \in DoneFields :
                    /\ m.metrics.gen_tokens = unwrap_or(f[1], 0)
                    /\ m.metrics.tokens_per_sec =
                          TpsWithZeroAsOne(unwrap_or(f[1], 0), unwrap_or(f[2], 1))

----------------------------------------------------------------------------
(* A pull progress line with an error field *)

ErrorLines == { l \in PullLines : IsSome(l.error) }

\* what a reading worker does with each line that carries an error
C20_ErrorLineRule ==
    \A i \in 1..Len(pull_workers) :
       pull_workers[i].pc = "read" =>
          \A l \in ErrorLines, alive \in BOOLEAN :
             LET w == pull_workers[i]
                 r == pull_worker_step(w, [kind |-> "json", line |-> l], alive)
             IN  /\ r.sent = Append(w.sent, PullError(Unwrap(l.error)))
                 /\ r.pc = "done"

\* a worker that sent an Error has returned and takes no further step
C20_StoppedAfterError ==
    \A i \in 1..Len(pull_workers) :
       (pull_workers[i].sent # << >> /\ Last(pull_workers[i].sent).tag = "Error") =>
          /\ pull_workers[i].pc = "done"
          /\ ~ENABLED PullWorkerStep(i)

\* C20: when a parsed pull progress line carries an error field, the pull
\* worker sends Error(message) with the message verbatim and then stops: it
\* sends no Progress or Done for that line, even if the line also has a
\* status containing "success", and reads no later line.
C20_ErrorLineEndsPull == C20_ErrorLineRule /\ C20_StoppedAfterError

\* a worker whose first line carried the error "model not found"
C20_Witness ==
    \E i \in 1..Len(pull_workers) :
       /\ pull_workers[i].pc = "done"
       /\ pull_workers[i].nread = 1
       /\ pull_workers[i].sent = <<PullError("model not found")>>

----------------------------------------------------------------------------
(* One pull and the lines its stream may hold *)

MaxStreamLines == 2

T_successful == T_success \o <<"f","u","l">>

L_successful == PullLine(Some(T_successful), Some(100), Some(100), None)
L_p25 == PullLine(Some(T_pulling), Some(100), Some(25), None)
L_nostatus == PullLine(None, Some(100), Some(25), None)
L_total0 == PullLine(Some(T_pulling), Some(0), Some(0), None)
L_nototal == PullLine(Some(T_pulling), None, Some(5), None)
L_nocompleted == PullLine(Some(T_pulling), Some(100), None, None)

StreamLines ==
    PullLines \cup {L_successful, L_p25, L_nostatus, L_total0, L_nototal, L_nocompleted}

StreamEvents(w) ==
    IF w.pc = "connect" THEN PullConnectEvents
    ELSE IF w.nread < MaxStreamLines
         THEN {[kind |-> "json", line |-> l] : l \in StreamLines}
              \cup SkippedLineEvents \cup StreamEndEvents
         ELSE StreamEndEvents

\* the pull worker takes its next step on such a stream
StreamPullWorkerStep(i) ==
    /\ pull_workers[i].pc # "done"
    /\ \E ev \in StreamEvents(pull_workers[i]) :
          pull_workers' = [pull_workers EXCEPT
              ![i] = pull_worker_step(@, ev, ai.pull_receiver = Some(i))]
    /\ last_op' = "pull_worker"
    /\ UNCHANGED <<ai, chat_workers, search_workers, now, app>>

StreamPullWorkerAny == \E i \in 1..Len(pull_workers) : StreamPullWorkerStep(i)

NextPullStream ==
    \/ UpdateAny
    \/ StartPullPhi3
    \/ StreamPullWorkerAny

SpecPullStream == Init /\ [][NextPullStream]_vars

\* the lines without an error field whose status contains "success"
SuccessLines ==
    { l \in StreamLines :
        IsNone(l.error) /\ IsSome(l.status) /\ str_contains(Unwrap(l.status), T_success) }

\* what a reading worker does with each such line
C21_SuccessLineRule ==
    \A i \in 1..Len(pull_workers) :
       pull_workers[i].pc = "read" =>
          \A l \in SuccessLines, alive \in BOOLEAN :
             LET w == pull_workers[i]
                 r == pull_worker_step(w, [kind |-> "json", line |-> l], alive)
             IN  r.sent = Append(w.sent, PullDone) /\ r.pc = "done"

\* a worker that sent Done has returned and takes no further step
C21_StoppedAfterDone ==
    \A i \in 1..Len(pull_workers) :
       (pull_workers[i].sent # << >> /\ Last(pull_workers[i].sent) = PullDone) =>
          /\ pull_workers[i].pc = "done"
          /\ ~ENABLED StreamPullWorkerStep(i)

\* C21: when a parsed pull progress line without an error field has a
\* status containing the substring "success", the pull worker sends Done, and
\* no Progress for that line, and stops reading: lines after it produce no
\* message.
C21_SuccessLineEndsPull == C21_SuccessLineRule /\ C21_StoppedAfterDone

\* a success line read as the first line of a stream that could go on
C21_Witness ==
    \E i \in 1..Len(pull_workers) :
       /\ pull_workers[i].pc = "done"
       /\ pull_workers[i].nread = 1
       /\ pull_workers[i].sent = <<PullDone>>

----------------------------------------------------------------------------
(* The end of a pull stream *)

\* the step of reading worker w at the end of its stream
AtEof(w, alive) == pull_worker_step(w, [kind |-> "eof"], alive)

\* the worker sent a Progress: it parsed a line without an error field
SentProgress(w) == HasTag(w.sent, "Progress")

\* the worker read a line that carries a status text
SawStatusField(w) ==
    \E k \in 1..Len(w.sent) : w.sent[k].tag = "Progress" /\ w.sent[k].status # << >>

\* C22: if the pull response stream ends without an error line or a
\* success status, the worker sends Done only if at least one status was
\* observed; if none was observed at all (an empty stream, only blank or
\* unparseable lines, or only lines that carry no status field) it sends
\* Error with the "no response / invalid model name" message.
C22_EofNeedsStatusField ==
    \A i \in 1..Len(pull_workers) :
       pull_workers[i].pc = "read" =>
          \A alive \in BOOLEAN :
             LET w == pull_workers[i]
             IN  AtEof(w, alive).sent =
                    Append(w.sent, IF SawStatusField(w) THEN PullDone
                                   ELSE PullError(MSG_NO_PULL_RESPONSE))

\* C22 as the code has it: Done when any line parsed without an error field,
\* with or without a status field; Error when no line parsed at all
C22_EofNeedsParsedLine ==
    \A i \in 1..Len(pull_workers) :
       pull_workers[i].pc = "read" =>
          \A alive \in BOOLEAN :
             LET w == pull_workers[i]
                 r == AtEof(w, alive)
             IN  /\ r.pc = "done"
                 /\ r.sent = Append(w.sent, IF SentProgress(w) THEN PullDone
                                            ELSE PullError(MSG_NO_PULL_RESPONSE))
                 /\ (w.sent = << >>) = ~w.got_any_status

\* a stream of one line without a status field ended: Progress with an empty
\* status, then Done
C22_Witness ==
    \E i \in 1..Len(pull_workers) :
       /\ pull_workers[i].pc = "done"
       /\ pull_workers[i].nread = 1
       /\ pull_workers[i].sent = <<PullProgress(<< >>, Some(25)), PullDone>>

----------------------------------------------------------------------------
(* The percent of a Progress message *)

\* the lines that are sent as Progress
ProgressLines == { l \in StreamLines : IsNone(l.error) } \ SuccessLines

\* the line carries both counts and a positive total
HasCounts(l) == IsSome(l.total) /\ IsSome(l.completed) /\ Unwrap(l.total) > 0

\* the Progress a reading worker sends for line l
ProgressFor(w, l) ==
    Last(pull_worker_step(w, [kind |-> "json", line |-> l], TRUE).sent)

\* C23: a Progress message of the pull worker carries a percent only when
\* the line has both total and completed and total > 0, and then percent =
\* completed * 100 / total (total 100 and completed 25 give 25); when either
\* field is missing or total = 0 the percent is absent.
C23_PercentOnlyWithCounts ==
    \A i \in 1..Len(pull_workers) :
       pull_workers[i].pc = "read" =>
          /\ \A l \in ProgressLines :
                LET m == ProgressFor(pull_workers[i], l)
                IN  /\ m.tag = "Progress"
                    /\ IsSome(m.percent) <=> HasCounts(l)
                    /\ HasCounts(l) =>
                          Unwrap(m.percent) * Unwrap(l.total) = Unwrap(l.completed) * 100
          /\ ProgressFor(pull_workers[i], L_p25).percent = Some(25)
          /\ \A l \in {L_total0, L_nototal, L_nocompleted} :
                ProgressFor(pull_workers[i], l).percent = None

\* a line with 25 of 100 and then a line with a total of 0 were sent
C23_Witness ==
    \E i \in 1..Len(pull_workers) :
       /\ Len(pull_workers[i].sent) = 2
       /\ pull_workers[i].sent[1] = PullProgress(T_pulling, Some(25))
       /\ pull_workers[i].sent[2] = PullProgress(T_pulling, None)

----------------------------------------------------------------------------
(* Streams with lines that are not JSON *)

E_garbage == [kind |-> "garbage"]
E_read_error == [kind |-> "read_error", text |-> "timed out"]

GarbledPullEvents(w) ==
    IF w.pc = "connect" THEN {[kind |-> "ok"]}
    ELSE IF w.nread < MaxStreamLines
         THEN {E_garbage, [kind |-> "json", line |-> L_p25], [kind |-> "eof"], E_read_error}
         ELSE {[kind |-> "eof"], E_read_error}

GarbledChatEvents(w) ==
    IF w.pc = "connect" THEN {[kind |-> "ok"]}
    ELSE IF w.nread < MaxStreamLines
         THEN {E_garbage, [kind |-> "json", line |-> CL_token(T_hi), elapsed |-> 120],
               [kind |-> "eof"], E_read_error}
         ELSE {[kind |-> "eof"], E_read_error}

GarbledPullWorkerStep(i) ==
    /\ pull_workers[i].pc # "done"
    /\ \E ev \in GarbledPullEvents(pull_workers[i]) :
          pull_workers' = [pull_workers EXCEPT
              ![i] = pull_worker_step(@, ev, ai.pull_receiver = Some(i))]
    /\ last_op' = "pull_worker"
    /\ UNCHANGED <<ai, chat_workers, search_workers, now, app>>

GarbledChatWorkerStep(i) ==
    /\ chat_workers[i].pc # "done"
    /\ \E ev \in GarbledChatEvents(chat_workers[i]) :
          chat_workers' = [chat_workers EXCEPT
              ![i] = chat_worker_step(@, ev, ai.chat_receiver = Some(i))]
    /\ last_op' = "chat_worker"
    /\ UNCHANGED <<ai, pull_workers, search_workers, now, app>>

GarbledPullWorkerAny == \E i \in 1..Len(pull_workers) : GarbledPullWorkerStep(i)
GarbledChatWorkerAny == \E i \in 1..Len(chat_workers) : GarbledChatWorkerStep(i)

NextGarbled ==
    \/ UpdateAny
    \/ StartPullPhi3
    \/ SendChatAny
    \/ GarbledPullWorkerAny
    \/ GarbledChatWorkerAny

SpecGarbled == Init /\ [][NextGarbled]_vars

\* a reading pull worker skips a line that is not JSON and goes on with the
\* next line as if it had not been there; a read error ends it with an Error
C24_PullRule ==
    \A i \in 1..Len(pull_workers) :
       pull_workers[i].pc = "read" =>
          \A alive \in BOOLEAN :
             LET w == pull_workers[i]
                 g == pull_worker_step(w, E_garbage, alive)
                 l == [kind |-> "json", line |-> L_p25]
                 e == pull_worker_step(w, E_read_error, alive)
             IN  /\ g = [w EXCEPT !.nread = @ + 1]
                 /\ pull_worker_step(g, l, alive).sent = pull_worker_step(w, l, alive).sent
                 /\ Len(pull_worker_step(g, l, alive).sent) = Len(w.sent) + 1
                 /\ e.pc = "done"
                 /\ e.sent = Append(w.sent, PullError("Read error: timed out"))

\* a reading chat worker skips a line that is not JSON in the same way
C24_ChatRule ==
    \A i \in 1..Len(chat_workers) :
       chat_workers[i].pc = "read" =>
          \A alive \in BOOLEAN :
             LET w == chat_workers[i]
                 g == chat_worker_step(w, E_garbage, alive)
                 l == [kind |-> "json", line |-> CL_token(T_hi), elapsed |-> 120]
             IN  /\ g = [w EXCEPT !.nread = @ + 1]
                 /\ chat_worker_step(g, l, alive).sent = chat_worker_step(w, l, alive).sent
                 /\ Len(chat_worker_step(g, l, alive).sent) = Len(w.sent) + 1

\* C24: a non-empty stream line that does not parse as JSON is skipped by
\* the pull worker and by the chat worker: it produces no message and does
\* not end the stream, and later lines are still processed; a read error on
\* the pull stream is terminal: the pull worker sends Error and stops.
C24_GarbageSkippedReadErrorEnds ==
    /\ C24_PullRule
    /\ C24_ChatRule
    /\ \A i \in 1..Len(pull_workers) :
          (pull_workers[i].sent # << >> /\ Last(pull_workers[i].sent).tag = "Error") =>
             pull_workers[i].pc = "done" /\ ~ENABLED GarbledPullWorkerStep(i)

\* a pull stream with one line that is not JSON and then a read error, and a
\* chat stream in which such a line and a delta were read
C24_Witness ==
    /\ \E i \in 1..Len(pull_workers) :
          /\ pull_workers[i].nread = 1
          /\ pull_workers[i].sent = <<PullError("Read error: timed out")>>
    /\ \E i \in 1..Len(chat_workers) :
          /\ chat_workers[i].nread = 2
          /\ chat_workers[i].pc = "read"
          /\ chat_workers[i].sent = <<TokFirstToken(T_hi, 120)>>

----------------------------------------------------------------------------
(* The pacing of the poller *)

NextPoller ==
    \/ UpdateRegistry
    \/ AdvanceTime
    \/ DeleteModelAny
    \/ StartPullPhi3
    \/ PullWorkerAny

SpecPoller == Init /\ [][NextPoller]_vars

\* the update that is about to run drains a terminal message of the pull
DrainsPullTerminal == HasTerminal(queue_of(pull_workers, ai.pull_receiver))

\* the registry state the poller writes
RegistryView(self) == <<self.ollama_version, self.ollama_models, self.ollama_running>>

\* an update with a poll attempt on record and no pull terminal to drain
C25_PacedStep ==
    (last_op' = "update" /\ IsSome(ai.last_api_check) /\ ~DrainsPullTerminal) =>
       LET t0 == Unwrap(ai.last_api_check)
       IN  IF now - t0 >= 5
           THEN ai'.last_api_check = Some(now)
           ELSE /\ ai'.last_api_check = Some(t0)
                /\ RegistryView(ai') = RegistryView(ai)

\* an update without a poll attempt on record, or one that drains a pull
\* terminal message, polls and records the time
C25_ForcedStep ==
    (last_op' = "update" /\ (IsNone(ai.last_api_check) \/ DrainsPullTerminal)) =>
       ai'.last_api_check = Some(now)

\* the record is only ever the time of an attempt made, or none
C25_RecordState ==
    IsSome(ai.last_api_check) => Unwrap(ai.last_api_check) \in 0..now

\* C25: update() runs the poller only if no poll attempt is recorded or at
\* least 5 seconds have elapsed since the last attempt: between two
\* consecutive attempts that are not separated by a delete_model call or a
\* drained pull terminal message at least 5 seconds elapse, and every
\* attempt records its time.
C25_PollerPacedByFiveSeconds ==
    /\ []C25_RecordState
    /\ [][C25_PacedStep /\ C25_ForcedStep]_vars

\* the second paced attempt, five seconds after the first
C25_Witness ==
    /\ last_op = "update"
    /\ now = 5
    /\ ai.last_api_check = Some(5)
    /\ pull_workers = << >>
    /\ Len(ai.ollama_models) = 2

----------------------------------------------------------------------------
(* One poll and its three calls *)

\* every combination of outcomes of the three GET calls
MixedOutcomes ==
    [ version : {None, Some("0.5.2")},
      tags : {None, Some(<< >>), Some(<<InstalledModel("phi3")>>)},
      ps : {None, Some(<<RunningModel("llama3")>>)} ]

UpdateMixed == \E p \in ProcessLists, h \in MixedOutcomes : Update(p, h)

NextPoll ==
    \/ UpdateMixed
    \/ AdvanceTime

SpecPoll == Init /\ [][NextPoll]_vars

\* a piece of state after its call: the reply when there is one, else as it was
PieceAfter(reply, old) == IF IsSome(reply) THEN Unwrap(reply) ELSE old

\* what one poll does to the state for each combination of outcomes
C26_PollRule ==
    \A h \in MixedOutcomes :
       LET r == refresh_ollama_api(ai, h)
       IN  IF ai.ollama_available
           THEN r = [ai EXCEPT
                       !.ollama_version =
                           IF IsSome(h.version) THEN h.version ELSE ai.ollama_version,
                       !.ollama_models = PieceAfter(h.tags, ai.ollama_models),
                       !.ollama_running = PieceAfter(h.ps, ai.ollama_running)]
           ELSE r = [ai EXCEPT !.ollama_version = None, !.ollama_models = << >>,
                               !.ollama_running = << >>]

\* an update that polls while Ollama is not detected leaves the registries
\* empty and the version unset, whatever the calls would have returned
C26_NotDetectedStep ==
    (last_op' = "update" /\ should_check_api(ai, now) /\ ~ai'.ollama_available) =>
       RegistryView(ai') = <<None, << >>, << >>>>

\* C26: in one poll the three calls (version, installed models, running
\* models) are independent: the failure of one does not prevent the others
\* and leaves its own piece of state at its last known value, while a
\* successful call replaces its piece wholesale; when Ollama is not detected
\* the poll issues no request, clears both registries and unsets the version.
C26_CallsAreIndependent ==
    /\ []C26_PollRule
    /\ [][C26_NotDetectedStep]_vars

\* the version call failed in every poll so far, the other two succeeded
C26_Witness ==
    /\ last_op = "update"
    /\ ai.ollama_available
    /\ ai.ollama_version = None
    /\ ai.ollama_models = <<InstalledModel("phi3")>>
    /\ ai.ollama_running = <<RunningModel("llama3")>>

----------------------------------------------------------------------------
(* delete_model and the poll that follows it *)

\* the entries of a model list whose name is not `name`, in their order
Without(models, name) ==
    LET other(m) == m.name # name
    IN  SelectSeq(models, other)

\* what delete_model does in the current state for each name
C27_DeleteRule ==
    \A name \in ModelNames \cup {T_ghost} :
       LET r == delete_model(ai, name)
       IN  /\ r.ollama_models = Without(ai.ollama_models, name)
           /\ r.ollama_running = ai.ollama_running
           /\ r.last_api_check = None
           /\ r = [ai EXCEPT !.ollama_models = r.ollama_models,
                             !.model_selected = r.model_selected,
                             !.last_api_check = None]

\* the update that follows a delete_model polls, whatever the time elapsed
C27_NextUpdateStep ==
    (last_op = "delete_model" /\ last_op' = "update") =>
       ai'.last_api_check = Some(now)

\* C27: delete_model(name) immediately removes every installed-models entry
\* whose name equals name exactly, keeps all other entries in their order,
\* leaves the running-models list unchanged, and resets the last-poll record
\* so that the next update() runs the poller regardless of the time elapsed.
C27_DeleteRemovesAndForcesPoll ==
    /\ []C27_DeleteRule
    /\ [](last_op = "delete_model" => IsNone(ai.last_api_check))
    /\ [][C27_NextUpdateStep]_vars

\* "phi3" was deleted from the list phi3, llama3 while it was running
C27_Witness ==
    /\ last_op = "delete_model"
    /\ ai.last_api_check = None
    /\ ai.ollama_models = <<InstalledModel("llama3")>>
    /\ ai.ollama_running = <<RunningModel("phi3")>>

----------------------------------------------------------------------------
(* Searches only: start_search, its workers, the overlay keys and the
   control loop (ai.rs:930-1019) *)

NextSearch ==
    \/ UpdateAny
    \/ StartSearchAny
    \/ SearchWorkerAny
    \/ SearchSelectNext
    \/ DismissSearch

SpecSearch == Init /\ [][NextSearch]_vars

\* the search worker started last
LatestSearch == Len(search_workers)

\* start_search, applied to the current state with the handle of a new
\* channel: results, status, cursor, overlay and handle are set, and no
\* other field changes
C28_StartRule ==
    \A query \in Queries :
        LET rx == LatestSearch + 1
            r == start_search(ai, query, rx)
        IN  /\ r.search_results = << >>
            /\ r.search_status = Some("Searching...")
            /\ r.search_selected = 0
            /\ r.show_search
            /\ r.search_receiver = Some(rx)
            /\ r = [ai EXCEPT !.search_results = << >>,
                              !.search_status = Some("Searching..."),
                              !.search_selected = 0,
                              !.show_search = TRUE,
                              !.search_receiver = Some(rx)]

\* a call of start_search leaves the struct in that state, tracking the
\* worker it spawned
C28_StartStep ==
    last_op' = "start_search" =>
        /\ ai'.search_results = << >>
        /\ ai'.search_status = Some("Searching...")
        /\ ai'.search_selected = 0
        /\ ai'.show_search
        /\ Len(search_workers') = LatestSearch + 1
        /\ ai'.search_receiver = Some(LatestSearch + 1)

\* the handle, when there is one, names the search started last
C28_HandleIsLatest ==
    IsSome(ai.search_receiver) => Unwrap(ai.search_receiver) = LatestSearch

\* a step that shows results or an error took them from the head of the
\* queue of the search started last
C28_ShownStep ==
    (/\ <<ai'.search_results, ai'.search_status>> # <<ai.search_results, ai.search_status>>
     /\ \/ ai'.search_results # << >>
        \/ ai'.search_status \notin {None, Some("Searching...")})
    => /\ last_op' = "update"
       /\ ai.search_receiver = Some(LatestSearch)
       /\ search_workers[LatestSearch].queue # << >>
       /\ LET m == Head(search_workers[LatestSearch].queue)
          IN  IF m.tag = "Results"
              THEN ai'.search_results = m.results
              ELSE ai'.search_status = Some(m.msg)

\* C28: start_search empties search_results, sets search_status to
\* "Searching...", sets search_selected to 0, shows the overlay and
\* replaces the search handle by the one of the worker it spawns; what
\* an earlier search sends afterwards is never shown.
C28_StartSearchReplacesSearch ==
    /\ []C28_StartRule
    /\ []C28_HandleIsLatest
    /\ [][C28_StartStep]_vars
    /\ [][C28_ShownStep]_vars

\* the first search was still running when the second was started: what it
\* sent afterwards was never received, and the overlay shows the answer of
\* the second, an empty list
C28_Witness ==
    /\ last_op = "update"
    /\ LatestSearch = 2
    /\ search_workers[1].sent = <<SearchResults(<<SR_llama3, SR_phi3>>)>>
    /\ search_workers[1].drained = 0
    /\ search_workers[2].sent = <<SearchResults(<< >>)>>
    /\ search_workers[2].drained = 1
    /\ ai.search_results = << >>
    /\ ai.search_status = Some("No results found")

\* the messages a search worker can send
SearchMessages ==
    { LET w == search_worker_step(NewWorker, ev, TRUE) IN w.sent[1] : ev \in SearchEvents }

\* the worker reports a page it read through Results, an empty list
\* included, and a failed request or read through Error
C29_WorkerRule ==
    \A ev \in SearchEvents :
        LET w == search_worker_step(NewWorker, ev, TRUE)
        IN  /\ Len(w.sent) = 1
            /\ w.queue = w.sent
            /\ IF ev.kind = "ok"
               THEN w.sent[1] = SearchResults(ev.results)
               ELSE w.sent[1].tag = "Error"

\* poll_search, applied to the current state while a search is tracked,
\* for each message the worker can send
C29_PollRule ==
    IsSome(ai.search_receiver) =>
        \A m \in SearchMessages :
            LET r == poll_search(ai, <<m>>, TRUE).self
            IN  CASE m.tag = "Results" /\ m.results = << >> ->
                        r = [ai EXCEPT !.search_status = Some("No results found"),
                                       !.search_results = << >>,
                                       !.search_receiver = None]
                  [] m.tag = "Results" /\ m.results # << >> ->
                        r = [ai EXCEPT !.search_status = None,
                                       !.search_results = m.results,
                                       !.search_receiver = None]
                  [] m.tag = "Error" ->
                        r = [ai EXCEPT !.search_status = Some(m.msg),
                                       !.search_receiver = None]

\* an update that finds a message of the tracked search shows it that way
C29_DrainStep ==
    (/\ last_op' = "update"
     /\ IsSome(ai.search_receiver)
     /\ queue_of(search_workers, ai.search_receiver) # << >>)
    => LET m == Head(queue_of(search_workers, ai.search_receiver))
       IN  CASE m.tag = "Results" /\ m.results = << >> ->
                   /\ ai'.search_status = Some("No results found")
                   /\ ai'.search_results = << >>
             [] m.tag = "Results" /\ m.results # << >> ->
                   /\ ai'.search_status = None
                   /\ ai'.search_results = m.results
             [] m.tag = "Error" ->
                   /\ ai'.search_status = Some(m.msg)
                   /\ ai'.search_results = ai.search_results

\* C29: when update drains the message of the search worker, an empty
\* Results list (sent as Results, not as Error) sets search_status to
\* "No results found", a non-empty Results list replaces search_results
\* and clears search_status, and Error(e) sets search_status to e and
\* leaves search_results as they were.
C29_SearchMessageShown ==
    /\ []C29_WorkerRule
    /\ []C29_PollRule
    /\ [][C29_DrainStep]_vars

\* an update drained the Results of a search that found nothing
C29_Witness ==
    /\ last_op = "update"
    /\ LatestSearch = 1
    /\ search_workers[1].sent = <<SearchResults(<< >>)>>
    /\ search_workers[1].drained = 1
    /\ ai.search_status = Some("No results found")
    /\ ai.search_results = << >>
    /\ IsNone(ai.search_receiver)

----------------------------------------------------------------------------
(* The parser of the search page (ai.rs:207-349) *)

\* the needles of parse_search_html
LI_NEEDLE ==
    <<"x", "-", "t", "e", "s", "t", "-", "m", "o", "d", "e", "l">>
HREF_NEEDLE ==
    <<"h", "r", "e", "f", "=", "\"", "/", "l", "i", "b", "r", "a", "r",
      "y", "/">>
DESC_NEEDLE ==
    <<"m", "a", "x", "-", "w", "-", "l", "g">>
SIZE_NEEDLE ==
    <<"x", "-", "t", "e", "s", "t", "-", "s", "i", "z", "e">>
PULL_NEEDLE ==
    <<"x", "-", "t", "e", "s", "t", "-", "p", "u", "l", "l", "-", "c", "o",
      "u", "n", "t">>
P_END ==
    <<"<", "/", "p", ">">>
SPAN_END ==
    <<"<", "/", "s", "p", "a", "n", ">">>

\* the entities of decode_html_entities
ENT_39 == <<"&", "#", "3", "9", ";">>
ENT_X27 == <<"&", "#", "x", "2", "7", ";">>
ENT_AMP == <<"&", "a", "m", "p", ";">>
ENT_LT == <<"&", "l", "t", ";">>
ENT_GT == <<"&", "g", "t", ";">>
ENT_QUOT == <<"&", "q", "u", "o", "t", ";">>

\* the needle is at offset p of the haystack (offsets count from 0)
MatchAt(haystack, needle, p) ==
    /\ p + Len(needle) <= Len(haystack)
    /\ \A k \in 1..Len(needle) : haystack[p + k] = needle[k]

\* the first offset >= p where the needle begins
FirstMatch(haystack, needle, p) ==
    LET hits == {q \in p..(Len(haystack) - Len(needle)) : MatchAt(haystack, needle, q)}
    IN  IF hits = {} THEN None
        ELSE Some(CHOOSE q \in hits : \A r \in hits : q <= r)

\* find_bytes: the first offset >= start where the needle begins
find_bytes(haystack, needle, start) ==
    IF needle = << >> \/ start + Len(needle) > Len(haystack) THEN None
    ELSE FirstMatch(haystack, needle, start)

\* find_byte: the first offset >= start that holds the byte
find_byte(haystack, needle, start) == FirstMatch(haystack, <<needle>>, start)

\* &s[from..to]
Slice(s, from, to) == SubSeq(s, from + 1, to)

RECURSIVE StripFrom(_, _, _)
StripFrom(s, i, in_tag) ==
    IF i > Len(s) THEN << >>
    ELSE IF s[i] = "<" THEN StripFrom(s, i + 1, TRUE)
    ELSE IF s[i] = ">" THEN StripFrom(s, i + 1, FALSE)
    ELSE IF ~in_tag THEN <<s[i]>> \o StripFrom(s, i + 1, in_tag)
    ELSE StripFrom(s, i + 1, in_tag)

\* strip_html_tags
strip_html_tags(s) == StripFrom(s, 1, FALSE)

\* str::replace: every non-overlapping match, from the left
RECURSIVE str_replace(_, _, _)
str_replace(s, from, to) ==
    IF s = << >> THEN << >>
    ELSE IF MatchAt(s, from, 0)
    THEN to \o str_replace(Slice(s, Len(from), Len(s)), from, to)
    ELSE <<Head(s)>> \o str_replace(Tail(s), from, to)

\* decode_html_entities
decode_html_entities(s) ==
    str_replace(str_replace(str_replace(str_replace(str_replace(str_replace(
        s, ENT_39, <<"'">>), ENT_X27, <<"'">>), ENT_AMP, <<"&">>),
        ENT_LT, <<"<">>), ENT_GT, <<">">>), ENT_QUOT, <<"\"">>)

\* str::trim
WhiteSpace == {" ", "\t", "\n", "\r"}
RECURSIVE trim_start(_)
trim_start(s) ==
    IF s # << >> /\ Head(s) \in WhiteSpace THEN trim_start(Tail(s)) ELSE s
RECURSIVE trim_end(_)
trim_end(s) ==
    IF s # << >> /\ s[Len(s)] \in WhiteSpace
    THEN trim_end(SubSeq(s, 1, Len(s) - 1)) ELSE s
trim(s) == trim_end(trim_start(s))

SearchResult(name, description, sizes, pulls) ==
    [name |-> name, description |-> description, sizes |-> sizes, pulls |-> pulls]

\* the description of a card (ai.rs:247-261)
block_description(block) ==
    LET desc_start == find_bytes(block, DESC_NEEDLE, 0)
    IN  IF IsNone(desc_start) THEN << >>
        ELSE LET gt == find_byte(block, ">", Unwrap(desc_start))
             IN  IF IsNone(gt) THEN << >>
                 ELSE LET p_end == find_bytes(block, P_END, Unwrap(gt) + 1)
                      IN  IF IsNone(p_end) THEN << >>
                          ELSE decode_html_entities(trim(strip_html_tags(
                                   Slice(block, Unwrap(gt) + 1, Unwrap(p_end)))))

\* the sizes of a card: the `while let` loop (ai.rs:263-281)
RECURSIVE block_sizes(_, _, _)
block_sizes(block, spos, sizes) ==
    LET s_start == find_bytes(block, SIZE_NEEDLE, spos)
    IN  IF IsNone(s_start) THEN sizes
        ELSE LET gt == find_byte(block, ">", Unwrap(s_start))
             IN  IF IsNone(gt) THEN sizes
                 ELSE LET s_end == find_bytes(block, SPAN_END, Unwrap(gt) + 1)
                      IN  IF IsNone(s_end) THEN sizes
                          ELSE LET size_text == trim(Slice(block, Unwrap(gt) + 1,
                                                           Unwrap(s_end)))
                               IN  block_sizes(block, Unwrap(s_end),
                                       IF size_text # << >>
                                       THEN Append(sizes, size_text)
                                       ELSE sizes)

\* the pull count of a card (ai.rs:283-297)
block_pulls(block) ==
    LET p_start == find_bytes(block, PULL_NEEDLE, 0)
    IN  IF IsNone(p_start) THEN << >>
        ELSE LET gt == find_byte(block, ">", Unwrap(p_start))
             IN  IF IsNone(gt) THEN << >>
                 ELSE LET p_end == find_bytes(block, SPAN_END, Unwrap(gt) + 1)
                      IN  IF IsNone(p_end) THEN << >>
                          ELSE trim(Slice(block, Unwrap(gt) + 1, Unwrap(p_end)))

\* a parse_block that pushes a card whatever names are already held
parse_block_no_dedup(block, results) ==
    LET href_start == find_bytes(block, HREF_NEEDLE, 0)
    IN  IF IsNone(href_start) THEN results
        ELSE LET name_start == Unwrap(href_start) + Len(HREF_NEEDLE)
                 quote_end == find_byte(block, "\"", name_start)
             IN  IF IsNone(quote_end) THEN results
                 ELSE LET name == Slice(block, name_start, Unwrap(quote_end))
                      IN  IF (\E k \in 1..Len(name) : name[k] = "/") \/ name = << >>
                          THEN results
                          ELSE Append(results,
                                      SearchResult(name, block_description(block),
                                                   block_sizes(block, 0, << >>),
                                                   block_pulls(block)))

\* the body of the loop of parse_search_html for one block (ai.rs:228-304):
\* the results after the block, unchanged where the code says `continue`
parse_block(block, results) ==
    LET href_start == find_bytes(block, HREF_NEEDLE, 0)
    IN  IF IsNone(href_start) THEN results
        ELSE LET name_start == Unwrap(href_start) + Len(HREF_NEEDLE)
                 quote_end == find_byte(block, "\"", name_start)
             IN  IF IsNone(quote_end) THEN results
                 ELSE LET name == Slice(block, name_start, Unwrap(quote_end))
                      IN  IF (\E k \in 1..Len(name) : name[k] = "/") \/ name = << >>
                          THEN results
                          ELSE IF \E k \in 1..Len(results) : results[k].name = name
                          THEN results
                          ELSE Append(results,
                                      SearchResult(name, block_description(block),
                                                   block_sizes(block, 0, << >>),
                                                   block_pulls(block)))

\* the loop of parse_search_html from offset pos (ai.rs:216-305)
RECURSIVE parse_from(_, _, _)
parse_from(html, pos, results) ==
    IF pos >= Len(html) THEN results
    ELSE LET li_start == find_bytes(html, LI_NEEDLE, pos)
         IN  IF IsNone(li_start) THEN results
             ELSE LET block_end == unwrap_or(find_bytes(html, LI_NEEDLE,
                                                 Unwrap(li_start) + Len(LI_NEEDLE)),
                                             Len(html))
                  IN  parse_from(html, block_end,
                          parse_block(Slice(html, Unwrap(li_start), block_end),
                                      results))

\* parse_search_html
parse_search_html(html) == parse_from(html, 0, << >>)

----------------------------------------------------------------------------
(* Pages of ollama.com/search and the worker that parses them *)

MaxCards == 3

\* a full card for phi3
CARD_phi3 ==
    <<"<", "l", "i", " ", "x", "-", "t", "e", "s", "t", "-", "m", "o", "d",
      "e", "l", ">", "<", "a", " ", "h", "r", "e", "f", "=", "\"", "/",
      "l", "i", "b", "r", "a", "r", "y", "/", "p", "h", "i", "3", "\"",
      ">", "<", "p", " ", "c", "l", "a", "s", "s", "=", "\"", "m", "a",
      "x", "-", "w", "-", "l", "g", "\"", ">", " ", "A", " ", "&", "a",
      "m", "p", ";", " ", "<", "b", ">", "B", "<", "/", "b", ">", " ", "<",
      "/", "p", ">", "<", "s", "p", "a", "n", " ", "x", "-", "t", "e", "s",
      "t", "-", "s", "i", "z", "e", ">", "3", "b", "<", "/", "s", "p", "a",
      "n", ">", "<", "s", "p", "a", "n", " ", "x", "-", "t", "e", "s", "t",
      "-", "s", "i", "z", "e", ">", " ", "<", "/", "s", "p", "a", "n", ">",
      "<", "s", "p", "a", "n", " ", "x", "-", "t", "e", "s", "t", "-", "p",
      "u", "l", "l", "-", "c", "o", "u", "n", "t", ">", "1", "M", "<", "/",
      "s", "p", "a", "n", ">">>
\* another card for phi3, with another description
CARD_phi3_again ==
    <<"<", "l", "i", " ", "x", "-", "t", "e", "s", "t", "-", "m", "o", "d",
      "e", "l", ">", "<", "a", " ", "h", "r", "e", "f", "=", "\"", "/",
      "l", "i", "b", "r", "a", "r", "y", "/", "p", "h", "i", "3", "\"",
      ">", "<", "p", " ", "c", "l", "a", "s", "s", "=", "\"", "m", "a",
      "x", "-", "w", "-", "l", "g", "\"", ">", "B", "<", "/", "p", ">">>
\* a bare card for llama3
CARD_llama3 ==
    <<"<", "l", "i", " ", "x", "-", "t", "e", "s", "t", "-", "m", "o", "d",
      "e", "l", ">", "<", "a", " ", "h", "r", "e", "f", "=", "\"", "/",
      "l", "i", "b", "r", "a", "r", "y", "/", "l", "l", "a", "m", "a", "3",
      "\"", ">">>
\* a card whose name is empty
CARD_empty ==
    <<"<", "l", "i", " ", "x", "-", "t", "e", "s", "t", "-", "m", "o", "d",
      "e", "l", ">", "<", "a", " ", "h", "r", "e", "f", "=", "\"", "/",
      "l", "i", "b", "r", "a", "r", "y", "/", "\"", ">">>
\* a card whose name holds a slash
CARD_slash ==
    <<"<", "l", "i", " ", "x", "-", "t", "e", "s", "t", "-", "m", "o", "d",
      "e", "l", ">", "<", "a", " ", "h", "r", "e", "f", "=", "\"", "/",
      "l", "i", "b", "r", "a", "r", "y", "/", "u", "/", "p", "h", "i", "3",
      "\"", ">">>
\* a card without a /library/ link
CARD_nohref ==
    <<"<", "l", "i", " ", "x", "-", "t", "e", "s", "t", "-", "m", "o", "d",
      "e", "l", ">", "<", "a", " ", "h", "r", "e", "f", "=", "\"", "/",
      "b", "l", "o", "g", "/", "p", "h", "i", "3", "\"", ">">>
\* a card cut off inside the link
CARD_noquote ==
    <<"<", "l", "i", " ", "x", "-", "t", "e", "s", "t", "-", "m", "o", "d",
      "e", "l", ">", "<", "a", " ", "h", "r", "e", "f", "=", "\"", "/",
      "l", "i", "b", "r", "a", "r", "y", "/", "p", "h", "i", "3">>
\* what surrounds the cards
PAGE_HEAD ==
    <<"<", "u", "l", ">">>
PAGE_TAIL ==
    <<"<", "/", "u", "l", ">">>
\* the texts the cards above hold
T_phi3 ==
    <<"p", "h", "i", "3">>
T_llama3 ==
    <<"l", "l", "a", "m", "a", "3">>
T_A_and_B ==
    <<"A", " ", "&", " ", "B">>

\* the cards by a one-letter id
CardIds == {"P", "Q", "L", "E", "S", "N", "U"}
CardText(id) ==
    CASE id = "P" -> CARD_phi3
      [] id = "Q" -> CARD_phi3_again
      [] id = "L" -> CARD_llama3
      [] id = "E" -> CARD_empty
      [] id = "S" -> CARD_slash
      [] id = "N" -> CARD_nohref
      [] id = "U" -> CARD_noquote

\* a page is a list of at most MaxCards cards
Pages == UNION { [1..n -> CardIds] : n \in 0..MaxCards }

RECURSIVE CardsText(_)
CardsText(page) ==
    IF page = << >> THEN << >> ELSE CardText(Head(page)) \o CardsText(Tail(page))

\* the HTML of a page
Html(page) == PAGE_HEAD \o CardsText(page) \o PAGE_TAIL

\* the name last_op gives to the parse of a page
RECURSIVE PageCode(_)
PageCode(page) ==
    IF page = << >> THEN "" ELSE Head(page) \o PageCode(Tail(page))
ParseOp(page) == "search_worker parses " \o PageCode(page)

\* a search worker thread runs: the request succeeds, the body is one of
\* the pages, and the worker sends what parse_search_html made of it
\* (ai.rs:956-961)
ParseSearchWorkerStep(i) ==
    /\ search_workers[i].pc # "done"
    /\ \E page \in Pages :
          /\ search_workers' = [search_workers EXCEPT
                ![i] = search_worker_step(@,
                           [kind |-> "ok", results |-> parse_search_html(Html(page))],
                           ai.search_receiver = Some(i))]
          /\ last_op' = ParseOp(page)
    /\ UNCHANGED <<ai, pull_workers, chat_workers, now, app>>

ParseSearchWorkerAny == \E i \in 1..Len(search_workers) : ParseSearchWorkerStep(i)
StartSearchOnce == search_workers = << >> /\ StartSearchAny

NextParse ==
    \/ UpdateAny
    \/ StartSearchOnce
    \/ ParseSearchWorkerAny

SpecParse == Init /\ [][NextParse]_vars

\* what each card holds for a reader of the page: its entry, if its link
\* names a model
CardEntry(id) ==
    CASE id = "P" -> Some(SearchResult(T_phi3, T_A_and_B, <<<<"3", "b">>>>, <<"1", "M">>))
      [] id = "Q" -> Some(SearchResult(T_phi3, <<"B">>, << >>, << >>))
      [] id = "L" -> Some(SearchResult(T_llama3, << >>, << >>, << >>))
      [] OTHER -> None

\* the cards of a page that come first for their name, in page order
FirstCards(page) ==
    LET first(i) ==
            /\ IsSome(CardEntry(page[i]))
            /\ \A j \in 1..(i - 1) :
                   IsSome(CardEntry(page[j]))
                       => Unwrap(CardEntry(page[j])).name # Unwrap(CardEntry(page[i])).name
        kept == SelectSeq([i \in 1..Len(page) |-> i], first)
    IN  [k \in 1..Len(kept) |-> Unwrap(CardEntry(page[kept[k]]))]

\* the list the search worker has just sent
ParsedList == search_workers[1].sent[1].results

\* the names of a list are not empty, hold no slash and differ pairwise
NamesWellFormed(results) ==
    /\ \A k \in 1..Len(results) :
           /\ results[k].name # << >>
           /\ \A c \in 1..Len(results[k].name) : results[k].name[c] # "/"
    /\ \A j, k \in 1..Len(results) : j # k => results[j].name # results[k].name

\* C30: the list parse_search_html returns has no two entries of the
\* same name and no entry whose name is empty or holds a slash; of the
\* cards of a page for the same /library/<name> it keeps the first only,
\* and the kept cards stand in page order.
C30_ParserKeepsFirstCardPerName ==
    \A page \in Pages :
        last_op = ParseOp(page) =>
            /\ NamesWellFormed(ParsedList)
            /\ ParsedList = FirstCards(page)

\* the page held a card for phi3, one for llama3 and a second one for phi3:
\* the list holds the first card for phi3, then the card for llama3
C30_Witness ==
    /\ last_op = ParseOp(<<"P", "L", "Q">>)
    /\ Len(ParsedList) = 2
    /\ ParsedList[1] = SearchResult(T_phi3, T_A_and_B, <<<<"3", "b">>>>, <<"1", "M">>)
    /\ ParsedList[2].name = T_llama3

----------------------------------------------------------------------------
(* The query of a search and its place in the URL (ai.rs:944-954) *)

MaxQueryLen == 2

\* the printable ASCII characters, from byte 32 to byte 126 (the grave
\* accent, byte 96, by its name)
ASCII ==
    <<" ", "!", "\"", "#", "$", "%", "&", "'", "(", ")", "*", "+", ",", "-", ".", "/",
      "0", "1", "2", "3", "4", "5", "6", "7", "8", "9", ":", ";", "<", "=", ">", "?",
      "@", "A", "B", "C", "D", "E", "F", "G", "H", "I", "J", "K", "L", "M", "N", "O",
      "P", "Q", "R", "S", "T", "U", "V", "W", "X", "Y", "Z", "[", "\\", "]", "^", "_",
      "grave", "a", "b", "c", "d", "e", "f", "g", "h", "i", "j", "k", "l", "m", "n", "o",
      "p", "q", "r", "s", "t", "u", "v", "w", "x", "y", "z", "{", "|", "}", "~">>

\* `b as char` for a byte of the ASCII range
as_char(b) == ASCII[b - 31]

\* the character outside ASCII the queries use, and its UTF-8 bytes
CH_e_acute == "e-acute"

\* str::bytes for one character
char_bytes(c) ==
    IF c = CH_e_acute THEN <<195, 169>>
    ELSE <<31 + CHOOSE k \in 1..Len(ASCII) : ASCII[k] = c>>

\* str::bytes
RECURSIVE str_bytes(_)
str_bytes(s) == IF s = << >> THEN << >> ELSE char_bytes(Head(s)) \o str_bytes(Tail(s))

HEX_UPPER ==
    <<"0", "1", "2", "3", "4", "5", "6", "7", "8", "9", "A", "B", "C", "D", "E", "F">>

\* format!("%{b:02X}")
format_percent_02X(b) == <<"%", HEX_UPPER[(b \div 16) + 1], HEX_UPPER[(b % 16) + 1]>>

\* an encoding that writes the space as any other byte
encode_byte_plain(b) ==
    IF \/ b \in 65..90
       \/ b \in 97..122
       \/ b \in 48..57
       \/ b \in {45, 95, 46}
    THEN <<as_char(b)>>
    ELSE format_percent_02X(b)

\* the closure of the map over query.bytes() (ai.rs:946-952)
encode_byte(b) ==
    IF \/ b \in 65..90
       \/ b \in 97..122
       \/ b \in 48..57
       \/ b \in {45, 95, 46}
    THEN <<as_char(b)>>
    ELSE IF b = 32 THEN <<"+">>
    ELSE format_percent_02X(b)

RECURSIVE encode_bytes(_)
encode_bytes(bytes) ==
    IF bytes = << >> THEN << >> ELSE encode_byte(Head(bytes)) \o encode_bytes(Tail(bytes))

\* `encoded` (ai.rs:944-953)
percent_encode(query) == encode_bytes(str_bytes(query))

\* the URL of the request (ai.rs:954)
URL_PREFIX == "https://ollama.com/search?q="

\* the characters of the queries, and the queries: every text of at most
\* MaxQueryLen of them, and "llama 3:8b"
QueryAlphabet == {"a", "Z", "3", "-", "_", ".", " ", ":", "/", "%", "+", "~", CH_e_acute}
Q_llama_3_8b == <<"l", "l", "a", "m", "a", " ", "3", ":", "8", "b">>
EncQueries ==
    UNION { [1..n -> QueryAlphabet] : n \in 0..MaxQueryLen } \cup {Q_llama_3_8b}

\* a text as a string
RECURSIVE AsString(_)
AsString(s) == IF s = << >> THEN "" ELSE Head(s) \o AsString(Tail(s))

\* the name last_op gives to the request for a query
RequestOp(query, encoded) ==
    "search_worker GET " \o URL_PREFIX \o AsString(encoded) \o " for " \o AsString(query)

\* a search worker thread runs: it encodes its query, sends the request and
\* reports the outcome (ai.rs:938-971)
EncodeSearchWorkerStep(i) ==
    /\ search_workers[i].pc # "done"
    /\ \E query \in EncQueries, ev \in SearchEvents :
          /\ search_workers' = [search_workers EXCEPT
                ![i] = search_worker_step(@, ev, ai.search_receiver = Some(i))]
          /\ last_op' = RequestOp(query, percent_encode(query))
    /\ UNCHANGED <<ai, pull_workers, chat_workers, now, app>>

EncodeSearchWorkerAny == \E i \in 1..Len(search_workers) : EncodeSearchWorkerStep(i)

NextEncode ==
    \/ UpdateAny
    \/ StartSearchOnce
    \/ EncodeSearchWorkerAny

SpecEncode == Init /\ [][NextEncode]_vars

\* what the URL holds for each character of the queries
InUrl(c) ==
    CASE c \in {"a", "Z", "3", "l", "m", "8", "b", "-", "_", "."} -> <<c>>
      [] c = " " -> <<"+">>
      [] c = ":" -> <<"%", "3", "A">>
      [] c = "/" -> <<"%", "2", "F">>
      [] c = "%" -> <<"%", "2", "5">>
      [] c = "+" -> <<"%", "2", "B">>
      [] c = "~" -> <<"%", "7", "E">>
      [] c = CH_e_acute -> <<"%", "C", "3", "%", "A", "9">>

RECURSIVE TextInUrl(_)
TextInUrl(s) == IF s = << >> THEN << >> ELSE InUrl(Head(s)) \o TextInUrl(Tail(s))

\* letters, digits, '-', '_' and '.'
UrlWhitelist ==
    { ASCII[k] : k \in (34..59) \cup (66..91) \cup (17..26) } \cup {"-", "_", "."}

\* the encoding of every query, character by character
C31_EncodeRule ==
    \A query \in EncQueries :
        LET e == percent_encode(query)
        IN  /\ e = TextInUrl(query)
            /\ \A k \in 1..Len(e) : e[k] \in UrlWhitelist \cup {"+", "%"}

\* the requests the workers make
C31_RequestState ==
    last_op \in {"new", "update", "start_search"}
        \cup { RequestOp(query, TextInUrl(query)) : query \in EncQueries }

\* C31: the query is encoded byte by byte: letters, digits, '-', '_' and
\* '.' stay, a space becomes '+', every other byte becomes '%' and its two
\* upper-case hex digits; the result holds only those characters, '+'
\* and '%'.
C31_QueryPercentEncoded == C31_EncodeRule /\ C31_RequestState

\* the worker requested the page for "llama 3:8b"
C31_Witness ==
    last_op = "search_worker GET https://ollama.com/search?q=llama+3%3A8b for llama 3:8b"

----------------------------------------------------------------------------
(* The search overlay and its keys (app.rs:142-163) *)

\* Enter in the overlay: the selected result, if there is one, is pulled
\* and the overlay is dismissed
KeySearchEnter ==
    /\ ai.show_search
    /\ TotalWorkers < MaxWorkers
    /\ Commit(search_pull_selected(ai, Len(pull_workers) + 1),
              IF IsSome(selected_search_model(ai))
              THEN Append(pull_workers, NewWorker)
              ELSE pull_workers,
              chat_workers, search_workers, "search_enter")
    /\ UNCHANGED <<now, app>>

NextOverlay ==
    \/ UpdateAny
    \/ StartSearchAny
    \/ SearchWorkerAny
    \/ SearchSelectNext
    \/ SearchSelectPrev
    \/ DismissSearch
    \/ KeySearchEnter

SpecOverlay == Init /\ [][NextOverlay]_vars

\* selected_search_model in the current state
C32_SelectedRule ==
    LET s == selected_search_model(ai)
        n == Len(ai.search_results)
    IN  /\ ai.search_selected >= n => s = None
        /\ ai.search_selected < n =>
              LET r == ai.search_results[ai.search_selected + 1]
              IN  IF Len(r.sizes) >= 1
                  THEN s = Some(r.name \o ":" \o r.sizes[1])
                  ELSE s = Some(r.name)
        /\ ai.search_results = <<SR_llama3, SR_phi3>> =>
              s = IF ai.search_selected = 0 THEN Some("llama3:8b") ELSE Some("phi3")

\* Enter pulls the model under that name, and does nothing without one
C32_EnterStep ==
    last_op' = "search_enter" =>
        IF IsNone(selected_search_model(ai))
        THEN ai' = ai
        ELSE ai'.pull_model_name = selected_search_model(ai)

\* C32: selected_search_model returns None when no result is at the
\* cursor, the name, a colon and the first size tag when the selected
\* result has a size tag, and the bare name when it has none.
C32_SelectedModelName ==
    /\ []C32_SelectedRule
    /\ [][C32_EnterStep]_vars

\* Enter on the first result, llama3 with the sizes 8b and 70b
C32_Witness ==
    /\ last_op = "search_enter"
    /\ ai.pull_model_name = Some("llama3:8b")
    /\ ~ai.show_search

\* the cursor of the overlay points at a result, or is 0 without results
SearchCursorValid(self) ==
    IF self.search_results = << >>
    THEN self.search_selected = 0
    ELSE self.search_selected < Len(self.search_results)

\* C39: in every reachable state search_selected is an index of
\* search_results, or 0 when there are no results, whatever the order of
\* start_search, update, the overlay keys and the workers' messages.
C39_SearchCursorValid == SearchCursorValid(ai)

\* results arrived after the overlay was dismissed: they are stored, the
\* overlay stays hidden, the cursor is at the first of them
C39_Witness ==
    /\ last_op = "update"
    /\ ~ai.show_search
    /\ ai.search_results = <<SR_llama3, SR_phi3>>
    /\ ai.search_selected = 0

----------------------------------------------------------------------------
(* History: the buffer of the tokens-per-second values (history.rs:11-37,
   ai.rs:891) *)

\* f64::max: a NaN operand is ignored, infinity is above every number
f64_max(a, b) ==
    IF a = F64_NAN THEN b
    ELSE IF b = F64_NAN THEN a
    ELSE IF a = F64_INFINITY \/ b = F64_INFINITY THEN F64_INFINITY
    ELSE IF a >= b THEN a ELSE b

\* the fold of History::max over the values from index k on
RECURSIVE fold_max(_, _, _)
fold_max(data, k, acc) ==
    IF k > Len(data) THEN acc ELSE fold_max(data, k + 1, f64_max(acc, data[k]))

\* History::max
History_max(h) == fold_max(h.data, 1, 0)

\* the capacities of the buffers: DEFAULT_CAPACITY in the code, here each
\* of the small ones
HistoryCaps == 1..(HistoryCap + 1)

InitHistory ==
    /\ \E c \in HistoryCaps :
          ai = [AiMetrics_new EXCEPT !.tps_history = [data |-> << >>, capacity |-> c],
                                     !.cpu_history = [data |-> << >>, capacity |-> c]]
    /\ pull_workers = << >>
    /\ chat_workers = << >>
    /\ search_workers = << >>
    /\ now = 0
    /\ app = [current_tab |-> "Dashboard", ai_input_mode |-> "Normal",
              ai_confirm_delete |-> None]
    /\ last_op = "new"

SpecHistory == InitHistory /\ [][NextTps]_vars

\* the tokens-per-second values of the Done messages poll_chat has taken
\* from worker i
RECURSIVE DrainedTps(_, _)
DrainedTps(w, k) ==
    IF k > w.drained THEN << >>
    ELSE (IF w.sent[k].tag = "Done" THEN <<w.sent[k].metrics.tokens_per_sec>> ELSE << >>)
         \o DrainedTps(w, k + 1)

\* the values pushed into tps_history so far, in push order
RECURSIVE PushedFrom(_)
PushedFrom(i) ==
    IF i > Len(chat_workers) THEN << >>
    ELSE DrainedTps(chat_workers[i], 1) \o PushedFrom(i + 1)
PushedTps == PushedFrom(1)

----------------------------------------------------------------------------
(* Service detection on varied process lists (ai.rs:444-476) *)

\* every list of at most two processes out of the five names, the pid
\* telling the place in the list
DetectLists ==
    UNION { { [k \in 1..n |-> [pid |-> 10 + k, name |-> names[k],
                               cpu_usage |-> 1, memory |-> 1]] :
              names \in [1..n -> ProcessNames] } : n \in 0..2 }

UpdateDetect == \E p \in DetectLists, h \in HttpOutcomes : Update(p, h)

NextDetect ==
    \/ UpdateDetect
    \/ AdvanceTime

SpecDetect == Init /\ [][NextDetect]_vars

\* the display names of the table, in table order
ServiceNames ==
    <<"Ollama", "LM Studio", "llama.cpp", "Claude Code", "MLX", "vLLM",
      "Open WebUI", "GPT4All", "Whisper", "Stable Diffusion">>

\* the services whose patterns a process name holds, whatever the case
ServicesOf(name) ==
    CASE name = T_ollama -> {"Ollama"}
      [] name = T_ollama_helper -> {"Ollama"}
      [] name = T_ollamamanager -> {"Ollama"}
      [] name = T_lm_studio -> {"LM Studio"}
      [] name = T_zsh -> {}

\* the entries to expect for a process list, without their versions
ExpectedServices(processes) ==
    [i \in 1..Len(ServiceNames) |->
        LET hits == {k \in 1..Len(processes) : ServiceNames[i] \in ServicesOf(processes[k].name)}
        IN  [name |-> ServiceNames[i],
             detected |-> hits # {},
             pid |-> IF hits = {} THEN None
                     ELSE Some(processes[CHOOSE k \in hits : \A m \in hits : k <= m].pid)]]

\* services without the versions
ServicesView(self) ==
    [i \in 1..Len(self.services) |->
        [name |-> self.services[i].name,
         detected |-> self.services[i].detected,
         pid |-> self.services[i].pid]]

\* detect_services on the current state, for every process list
C34_DetectRule ==
    \A p \in DetectLists :
        LET r == detect_services(ai, p)
        IN  /\ ServicesView(r) = ExpectedServices(p)
            /\ r.ollama_available = ExpectedServices(p)[1].detected

\* what an update leaves behind
C34_UpdateState ==
    last_op = "update" =>
        /\ \E p \in DetectLists : ServicesView(ai) = ExpectedServices(p)
        /\ ai.ollama_available = ai.services[1].detected

\* C34: after every update services has one entry per signature of the
\* table, in table order; an entry is detected exactly when some process
\* name holds one of its patterns, whatever the case ("Ollama Helper" and
\* "ollamamanager-unrelated" both hold "ollama"); its pid is that of the
\* first such process; ollama_available is the detected flag of the
\* Ollama entry.
C34_ServicesFollowProcesses == C34_DetectRule /\ C34_UpdateState

\* "Ollama Helper" ran before "ollamamanager-unrelated": Ollama is detected
\* under the pid of the first
C34_Witness ==
    /\ last_op = "update"
    /\ ServicesView(ai) =
          ExpectedServices(<< [pid |-> 11, name |-> T_ollama_helper, cpu_usage |-> 1, memory |-> 1],
                              [pid |-> 12, name |-> T_ollamamanager, cpu_usage |-> 1, memory |-> 1] >>)
    /\ ai.services[1].pid = Some(11)
    /\ ai.ollama_available


\* C38: after every update, if Ollama is not detected then the installed
\* and the running registry are empty, ollama_version is None and the
\* Ollama entry of services carries no version.
C38_NothingShownWithoutOllama ==
    (last_op = "update" /\ ~ai.ollama_available) =>
        /\ ai.ollama_models = << >>
        /\ ai.ollama_running = << >>
        /\ IsNone(ai.ollama_version)
        /\ IsNone(ai.services[1].version)

\* an update in which the poller runs and Ollama is not detected empties
\* both registries and unsets the version; the Ollama entry of services,
\* written before the poller ran, carries the version held until then
C38_PolledStep ==
    (last_op' = "update" /\ ~ai'.ollama_available /\ should_check_api(ai, now)) =>
        /\ ai'.ollama_models = << >>
        /\ ai'.ollama_running = << >>
        /\ IsNone(ai'.ollama_version)
        /\ ai'.services[1].version = ai.ollama_version
        /\ ai'.last_api_check = Some(now)

\* an update in which the poller does not run leaves registries and
\* version as they were
C38_UnpolledStep ==
    (last_op' = "update" /\ ~should_check_api(ai, now)) =>
        /\ ai'.ollama_models = ai.ollama_models
        /\ ai'.ollama_running = ai.ollama_running
        /\ ai'.ollama_version = ai.ollama_version
        /\ ai'.services[1].version = ai.ollama_version

\* C38, as the code has it: the registries are emptied and the version is
\* unset by the updates in which the poller runs while Ollama is not
\* detected; between two polls they stay, and the Ollama entry of services
\* shows the version of the update before.
C38_ClearedWhenPolledWithoutOllama ==
    /\ [][C38_PolledStep]_vars
    /\ [][C38_UnpolledStep]_vars

\* Ollama has gone and the poller has run: registries and version are
\* unset, the Ollama entry still shows the version of the last poll
C38_Witness ==
    /\ last_op = "update"
    /\ ~ai.ollama_available
    /\ ai.last_api_check = Some(now)
    /\ now = MaxTime
    /\ ai.ollama_models = << >>
    /\ ai.ollama_running = << >>
    /\ IsNone(ai.ollama_version)
    /\ ai.services[1].version = Some("0.5.1")

----------------------------------------------------------------------------
(* A pull that runs to its end: the control loop keeps calling update and
   the worker thread keeps running until its closure returns *)


\* a message waits behind the pull handle, and update is called
PullPending == queue_of(pull_workers, ai.pull_receiver) # << >>
UpdatePendingPull == PullPending /\ UpdateAny

SpecPullLive ==
    /\ Init
    /\ [][NextPullStream]_vars
    /\ WF_vars(UpdatePendingPull)
    /\ WF_vars(StreamPullWorkerAny)

\* the pull has ended: a terminal status is shown and no handle is held
PullEnded(self) ==
    /\ IsNone(self.pull_receiver)
    /\ IsSome(self.pull_status)
    /\ IsPullTerminal(Unwrap(self.pull_status))

\* the terminal status stays until the next start_pull
C35_TerminalStays ==
    (PullEnded(ai) /\ ~IsStartPullOp(last_op')) =>
        (PullEnded(ai') /\ ai'.pull_status = ai.pull_status)

\* C35: when the worker's stream ends and update keeps being called,
\* a pull that has started leads to pull_status Done or Error with no pull
\* handle held, and pull_status stays at that value while no start_pull
\* is called.
C35_PullEventuallyEnds ==
    /\ IsSome(ai.pull_receiver) ~> PullEnded(ai)
    /\ [][C35_TerminalStays]_vars

\* the pull has ended with Done after two lines of progress
C35_Witness ==
    /\ last_op = "update"
    /\ Len(pull_workers) = 1
    /\ pull_workers[1].pc = "done"
    /\ pull_workers[1].nread = MaxStreamLines
    /\ pull_workers[1].drained = Len(pull_workers[1].sent)
    /\ PullEnded(ai)
    /\ ai.pull_status = Some(PullDone)

----------------------------------------------------------------------------
(* A chat turn that runs to its end *)

SendChatOnce == chat_workers = << >> /\ SendChatAny

NextChatLive ==
    \/ UpdateVaried
    \/ SendChatOnce
    \/ ChatWorkerAny
    \/ TpsChatWorkerAny

\* a message waits behind the chat handle, or its channel is closed, and
\* update is called
ChatPending ==
    /\ IsSome(ai.chat_receiver)
    /\ \/ queue_of(chat_workers, ai.chat_receiver) # << >>
       \/ ~sender_alive(chat_workers, Unwrap(ai.chat_receiver))
UpdatePendingChat == ChatPending /\ UpdateAny

SpecChatLive ==
    /\ Init
    /\ [][NextChatLive]_vars
    /\ WF_vars(UpdatePendingChat)
    /\ WF_vars(ChatWorkerAny)
    /\ WF_vars(TpsChatWorkerAny)

\* the turn has ended: the status is Done or Error and no handle is held
ChatEnded(self) ==
    /\ IsNone(self.chat_receiver)
    /\ self.chat_status.tag \in {"Done", "Error"}

\* C36: when the worker's stream ends, by a done event, a plain close or a
\* read error, and update keeps being called with no start_chat,
\* cancel_chat or clear_chat in between, chat_status leaves Generating for
\* Done or Error and the chat handle becomes None.
C36_ChatEventuallyEnds == (ai.chat_status = ChatGenerating) ~> ChatEnded(ai)

\* the stream closed after a token without a done event, and update found
\* the channel closed
C36_Witness ==
    /\ last_op = "update"
    /\ Len(chat_workers) = 1
    /\ chat_workers[1].pc = "done"
    /\ Len(chat_workers[1].sent) = 1
    /\ chat_workers[1].sent[1].tag = "FirstToken"
    /\ ChatEnded(ai)

----------------------------------------------------------------------------
(* clear_chat and the updates after it (ai.rs:921-926, app.rs:475-478) *)

\* the chat pane as clear_chat leaves it
ChatCleared(self) ==
    /\ self.chat_messages = << >>
    /\ IsNone(self.chat_metrics)
    /\ self.chat_status = ChatIdle

\* an update finds the pane cleared and leaves it cleared
C37_UpdateStep ==
    (ChatCleared(ai) /\ last_op' = "update") => ChatCleared(ai')

\* C37: after clear_chat the transcript is empty, chat_metrics is None and
\* chat_status is Idle, and they stay so across every update until the
\* next start_chat, also when a chat worker was in flight at the time of
\* clear_chat.
C37_ClearedChatStaysCleared == [][C37_UpdateStep]_vars

----------------------------------------------------------------------------
(* A drained pull terminal message and the poll of the same update
   (ai.rs:424-442: poll_pull_status runs at 429, the cache test at 434) *)

\* the queue behind the pull handle as the update about to run finds it
PullQueue == queue_of(pull_workers, ai.pull_receiver)

\* a poll attempt is on record and less than 5 seconds old
WithinCacheInterval ==
    IsSome(ai.last_api_check) /\ now - Unwrap(ai.last_api_check) < 5

\* an update inside the cache interval that drains a pull terminal message
\* polls all the same: the time is recorded and the pull handle is gone
C40_TerminalStep ==
    (last_op' = "update" /\ WithinCacheInterval /\ DrainsPullTerminal) =>
       /\ ai'.last_api_check = Some(now)
       /\ IsNone(ai'.pull_receiver)
       /\ IsPullTerminal(Unwrap(ai'.pull_status))

\* an update inside the cache interval that drains Progress messages only
\* shows the newest of them and does not poll
C40_ProgressStep ==
    (last_op' = "update" /\ WithinCacheInterval
        /\ PullQueue # << >> /\ ~DrainsPullTerminal) =>
       /\ ai'.last_api_check = ai.last_api_check
       /\ RegistryView(ai') = RegistryView(ai)
       /\ ai'.pull_status = Some(Last(PullQueue))
       /\ ai'.pull_receiver = ai.pull_receiver

\* C40: when update() drains a pull terminal message (Done or Error) the
\* poller runs within that same update() call whatever time has elapsed
\* since the last poll attempt; an update() that drains only Progress
\* messages does not force a poll.
C40_PullTerminalForcesPoll == [][C40_TerminalStep /\ C40_ProgressStep]_vars

\* a pull that ended two seconds after the first poll, and the poll made by
\* the update that drained its Done
C40_Witness ==
    /\ last_op = "update"
    /\ now = 2
    /\ ai.last_api_check = Some(2)
    /\ ai.pull_status = Some(PullDone)
    /\ IsNone(ai.pull_receiver)
    /\ Len(pull_workers) = 1
    /\ pull_workers[1].pc = "done"

====
